---- MODULE Spec2Model ----
(***************************************************************************)
(* Conversation orchestration core of the Screen Printing NW chatbot.      *)
(*                                                                         *)
(* A session is a record (models/session_state.py SessionState).  Every    *)
(* graph node of main.py / flows/*.py is an operator from a run record to  *)
(* a run record; the routing functions are operators returning the route   *)
(* name together with the session as the function leaves it (the order     *)
(* router assigns current_state while it routes).  One Chat action is one  *)
(* call of ScreenPrintingChatbot.chat: it runs the graph from the resume   *)
(* dispatcher until a node routes to END, a route name has no edge in the  *)
(* graph (a routing error), or the recursion limit is reached.             *)
(*                                                                         *)
(* Reading notes.                                                          *)
(*  - User texts are real strings; keyword tests are substring tests as    *)
(*    in the Python code.  All texts of the model are lower case, so       *)
(*    str.lower() is not modelled separately.                              *)
(*  - main.py wires one node "order_contact"; flows/order_flow.py defines  *)
(*    the four contact nodes and route_order_flow returns their names.     *)
(*    The model dispatches a name returned by route_order_flow to the      *)
(*    node function of that name in order_flow.py; every other edge is     *)
(*    taken from the path maps of create_chatbot_graph as written.         *)
(*  - context_data is a function from the keys the code uses to their      *)
(*    values; an absent key and a falsy value are the same thing to every  *)
(*    reader (dict.get), and both are FALSE here.                          *)
(***************************************************************************)
EXTENDS Integers, Sequences, FiniteSets, TLC

\* ------------------------------------------------------------------ bounds
SessionIds == {"s1"}
HistWindow == 2

\* main.py: "recursion_limit": 50
RecursionLimit == 50

\* ------------------------------------------------------------ string tools
NoneV == "None"
NoneInt == -1

\* Python: kw in t
Has(kw, t) ==
    \E i \in 1..(Len(t) - Len(kw) + 1) : SubSeq(t, i, i + Len(kw) - 1) = kw

HasAny(kws, t) == \E kw \in kws : Has(kw, t)

Ch(t, i) == SubSeq(t, i, i)

IsSpace(c) == c = " "

\* Python: t.strip()
RECURSIVE LStrip(_)
LStrip(t) ==
    IF Len(t) > 0 /\ IsSpace(Ch(t, 1)) THEN LStrip(SubSeq(t, 2, Len(t))) ELSE t

RECURSIVE RStrip(_)
RStrip(t) ==
    IF Len(t) > 0 /\ IsSpace(Ch(t, Len(t))) THEN RStrip(SubSeq(t, 1, Len(t) - 1)) ELSE t

Strip(t) == RStrip(LStrip(t))

Digits == {"0", "1", "2", "3", "4", "5", "6", "7", "8", "9"}

IsDigit(c) == c \in Digits

DigitVal(c) ==
    CASE c = "0" -> 0 [] c = "1" -> 1 [] c = "2" -> 2 [] c = "3" -> 3
      [] c = "4" -> 4 [] c = "5" -> 5 [] c = "6" -> 6 [] c = "7" -> 7
      [] c = "8" -> 8 [] c = "9" -> 9

\* re.match(r"^\s*([0-9]+)\s*$", t) on a stripped text
IsDigits(t) == Len(t) > 0 /\ \A i \in 1..Len(t) : IsDigit(Ch(t, i))

\* int(t) for a text of decimal digits
RECURSIVE IntOf(_)
IntOf(t) ==
    IF Len(t) = 0 THEN 0
    ELSE 10 * IntOf(SubSeq(t, 1, Len(t) - 1)) + DigitVal(Ch(t, Len(t)))

\* re.findall(r"\d+", t): the digit runs of t, in order
RECURSIVE DigitRunsFrom(_, _, _)
DigitRunsFrom(t, i, cur) ==
    IF i > Len(t) THEN (IF cur = "" THEN <<>> ELSE <<cur>>)
    ELSE IF IsDigit(Ch(t, i)) THEN DigitRunsFrom(t, i + 1, cur \o Ch(t, i))
    ELSE (IF cur = "" THEN <<>> ELSE <<cur>>) \o DigitRunsFrom(t, i + 1, "")

DigitRuns(t) == DigitRunsFrom(t, 1, "")

Letters == {"a", "b", "c", "d", "e", "f", "g", "h", "i", "j", "k", "l", "m",
            "n", "o", "p", "q", "r", "s", "t", "u", "v", "w", "x", "y", "z"}

IsAlnum(c) == c \in Letters \/ c \in Digits

\* order_flow._tok: re.findall(r"[a-zA-Z0-9]+", s.lower())
RECURSIVE TokFrom(_, _, _)
TokFrom(t, i, cur) ==
    IF i > Len(t) THEN (IF cur = "" THEN <<>> ELSE <<cur>>)
    ELSE IF IsAlnum(Ch(t, i)) THEN TokFrom(t, i + 1, cur \o Ch(t, i))
    ELSE (IF cur = "" THEN <<>> ELSE <<cur>>) \o TokFrom(t, i + 1, "")

tok(t) == TokFrom(t, 1, "")

SeqToSet(q) == {q[i] : i \in 1..Len(q)}


\* ------------------------------------------------------------ session data
\* models/session_state.py: ConversationState, with the members the flows
\* assign (order_flow.py, product_questions.py)
ConversationState ==
    {"WELCOME", "MAIN_MENU", "WANTS_HUMAN", "HAS_QUESTIONS_ABOUT_PRODUCT",
     "ORDER_CONTACT", "ORDER_CONTACT_FIRST_NAME", "ORDER_CONTACT_LAST_NAME",
     "ORDER_CONTACT_EMAIL", "ORDER_CONTACT_PHONE", "ORDER_ORGANIZATION",
     "ORDER_TYPE", "ORDER_BUDGET", "ORDER_SERVICE", "ORDER_APPAREL",
     "ORDER_PRODUCT", "ORDER_LOGO", "ORDER_DECORATION_LOCATION",
     "ORDER_DECORATION_COLORS", "ORDER_QUANTITY", "ORDER_SIZES",
     "ORDER_DELIVERY", "ORDER_DELIVERY_ADDRESS", "ORDER_SUMMARY",
     "ORDER_POST_CONFIRMATION", "END"}

Intent ==
    {"Greeting", "Has Questions about Product", "Place order",
     "End conversation", "Wants Human", "No match", "Yes", "No"}

\* models/session_state.py: OrderDetails (with Contact and Organization)
OrderDetails ==
    [first_name |-> NoneV, last_name |-> NoneV, email |-> NoneV, phone |-> NoneV,
     is_business |-> NoneV, org_name |-> NoneV,
     order_type |-> NoneV, budget_range |-> NoneV, service_type |-> NoneV,
     apparel_category |-> NoneV, product_name |-> NoneV, color |-> NoneV,
     decoration_location |-> NoneV, decoration_colors |-> NoneInt,
     total_quantity |-> NoneV, sizes |-> <<>>,
     delivery_option |-> NoneV, delivery_address |-> NoneV]

\* the boolean keys of context_data
CtxFlags ==
    {"order_interrupted", "product_question_prompted", "awaiting_resume_decision",
     "human_contact_shown", "main_menu_prompted", "just_resumed_from_interrupt",
     "order_complete_awaiting_next",
     "contact_first_name_shown", "contact_first_name_complete",
     "contact_last_name_shown", "contact_last_name_complete",
     "contact_email_shown", "contact_email_complete",
     "contact_phone_shown", "contact_phone_complete", "contact_complete",
     "contact_question_shown", "org_question_shown", "org_type_shown,org_name_shown",
     "org_type_shown", "org_name_shown", "org_complete",
     "type_question_shown", "type_complete",
     "budget_question_shown", "budget_complete",
     "service_question_shown", "service_complete",
     "apparel_question_shown", "apparel_complete",
     "product_question_shown", "product_complete",
     "logo_question_shown", "logo_complete", "awaiting_upload",
     "decoration_location_shown", "decoration_location_complete",
     "decoration_colors_shown", "decoration_colors_complete",
     "qty_question_shown", "qty_complete",
     "exact_sizes_mode", "exact_sizes_started", "used_range_path",
     "sizes_question_shown", "sizes_complete", "sizes_pending",
     "delivery_question_shown", "delivery_complete",
     "awaiting_address", "address_question_shown",
     "summary_shown", "order_confirmed", "order_complete",
     "post_order_question_shown"}

\* the keys of context_data that hold other values
CtxValues == {"interrupt_reason", "interrupt_snapshot", "loc_map", "size_step",
              "sizes_collected", "logo_file_id", "logo_view_link"}

\* context_data = {}
EmptyContext ==
    [k \in CtxFlags \cup CtxValues |->
        CASE k \in CtxFlags -> FALSE
          [] k = "interrupt_reason" -> NoneV
          [] k = "interrupt_snapshot" -> <<>>
          [] k = "loc_map" -> NoneV
          [] k = "size_step" -> 0
          [] k = "sizes_collected" -> <<>>
          [] k = "logo_file_id" -> NoneV
          [] k = "logo_view_link" -> NoneV]

\* SessionState(session_id=...); conversation_history keeps its last
\* HistWindow entries
SessionState ==
    [current_state |-> "WELCOME", last_user_message |-> "",
     classified_intent |-> NoneV, conversation_history |-> <<>>,
     order |-> OrderDetails, interrupted_from |-> NoneV,
     context_data |-> EmptyContext]

Window(h) == IF Len(h) > HistWindow THEN SubSeq(h, Len(h) - HistWindow + 1, Len(h)) ELSE h

\* A run record: the session a node works on, the assistant messages added
\* during this routing pass, and the calls made to the collaborators.
NewRun(s) == [s |-> s, out |-> <<>>, mails |-> <<>>, rags |-> 0, hops |-> 0, err |-> NoneV]

\* SessionState.add_message
add_message(r, role, content) ==
    [r EXCEPT !.s.conversation_history =
                  Window(Append(@, [role |-> role, content |-> content])),
              !.out = IF role = "assistant" THEN Append(@, content) ELSE @]

Say(r, content) == add_message(r, "assistant", content)
Ctx(r, k) == r.s.context_data[k]
SetCtx(r, k, v) == [r EXCEPT !.s.context_data[k] = v]
SetText(r, t) == [r EXCEPT !.s.last_user_message = t]
SetState(r, st) == [r EXCEPT !.s.current_state = st]
SetOrder(r, f, v) == [r EXCEPT !.s.order[f] = v]
Text(r) == r.s.last_user_message

\* ------------------------------------------------------ interrupt detector
ProductWords == {"product", "question", "price", "pricing", "cost",
                 "shirt", "hoodie", "embroidery", "screen print"}

\* order_flow._wants_human
wants_human(t) == HasAny({"human", "agent", "representative", "talk to a person", "call me"}, t)

\* order_flow._wants_end
wants_end(t) == HasAny({"end", "cancel", "stop", "goodbye", "bye", "finish chat"}, t)

\* an interrupt detector that does not record the step it diverts from
check_interrupt_unsaved(r) ==
    IF Text(r) = "" THEN [r |-> r, hit |-> NoneV]
    ELSE
      LET text == Strip(Text(r))
          marked(reason, intent, target) ==
              [r EXCEPT !.s.context_data["order_interrupted"] = TRUE,
                        !.s.context_data["interrupt_reason"] = reason,
                        !.s.classified_intent = intent,
                        !.s.current_state = target]
      IN
      IF HasAny(ProductWords, text) THEN
        LET r1 == [r EXCEPT !.s.context_data["order_interrupted"] = TRUE,
                            !.s.context_data["interrupt_reason"] = "product_questions",
                            !.s.context_data["interrupt_snapshot"] =
                                <<Ctx(r, "contact_question_shown"),
                                  Ctx(r, "org_question_shown"),
                                  Ctx(r, "type_question_shown")>>,
                            !.s.classified_intent = "Has Questions about Product",
                            !.s.current_state = "HAS_QUESTIONS_ABOUT_PRODUCT"]
            r2 == SetCtx(Say(r1, "interrupt_product_questions"),
                         "product_question_prompted", TRUE)
        IN [r |-> r2, hit |-> "HAS_QUESTIONS_ABOUT_PRODUCT"]
      ELSE IF wants_human(text) THEN
        [r |-> marked("wants_human", "Wants Human", "WANTS_HUMAN"),
         hit |-> "WANTS_HUMAN"]
      ELSE IF wants_end(text) THEN
        [r |-> Say(marked("end_conversation", "End conversation", "END"),
                   "interrupt_goodbye"),
         hit |-> "END"]
      ELSE [r |-> r, hit |-> NoneV]

\* an interrupt detector that looks for end/cancel words before human words
check_interrupt_end_first(r) ==
    IF Text(r) = "" THEN [r |-> r, hit |-> NoneV]
    ELSE
      LET text == Strip(Text(r))
          marked(reason, intent, target) ==
              [r EXCEPT !.s.interrupted_from = r.s.current_state,
                        !.s.context_data["order_interrupted"] = TRUE,
                        !.s.context_data["interrupt_reason"] = reason,
                        !.s.classified_intent = intent,
                        !.s.current_state = target]
      IN
      IF HasAny(ProductWords, text) THEN
        LET r1 == [r EXCEPT !.s.interrupted_from = r.s.current_state,
                            !.s.context_data["order_interrupted"] = TRUE,
                            !.s.context_data["interrupt_reason"] = "product_questions",
                            !.s.context_data["interrupt_snapshot"] =
                                <<Ctx(r, "contact_question_shown"),
                                  Ctx(r, "org_question_shown"),
                                  Ctx(r, "type_question_shown")>>,
                            !.s.classified_intent = "Has Questions about Product",
                            !.s.current_state = "HAS_QUESTIONS_ABOUT_PRODUCT"]
            r2 == SetCtx(Say(r1, "interrupt_product_questions"),
                         "product_question_prompted", TRUE)
        IN [r |-> r2, hit |-> "HAS_QUESTIONS_ABOUT_PRODUCT"]
      ELSE IF wants_end(text) THEN
        [r |-> Say(marked("end_conversation", "End conversation", "END"),
                   "interrupt_goodbye"),
         hit |-> "END"]
      ELSE IF wants_human(text) THEN
        [r |-> marked("wants_human", "Wants Human", "WANTS_HUMAN"),
         hit |-> "WANTS_HUMAN"]
      ELSE [r |-> r, hit |-> NoneV]

\* an interrupt detector that marks the order suspended but leaves the
\* session in the order step
check_interrupt_in_place(r) ==
    IF Text(r) = "" THEN [r |-> r, hit |-> NoneV]
    ELSE
      LET text == Strip(Text(r))
          marked(reason, intent) ==
              [r EXCEPT !.s.interrupted_from = r.s.current_state,
                        !.s.context_data["order_interrupted"] = TRUE,
                        !.s.context_data["interrupt_reason"] = reason,
                        !.s.classified_intent = intent]
      IN
      IF HasAny(ProductWords, text) THEN
        [r |-> SetCtx(Say(marked("product_questions", "Has Questions about Product"),
                          "interrupt_product_questions"),
                      "product_question_prompted", TRUE),
         hit |-> "HAS_QUESTIONS_ABOUT_PRODUCT"]
      ELSE IF wants_human(text) THEN
        [r |-> marked("wants_human", "Wants Human"), hit |-> "WANTS_HUMAN"]
      ELSE IF wants_end(text) THEN
        [r |-> Say(marked("end_conversation", "End conversation"), "interrupt_goodbye"),
         hit |-> "END"]
      ELSE [r |-> r, hit |-> NoneV]

\* order_flow._check_interrupt: the run after the check and the state it
\* returns (NoneV when no keyword matched)
check_interrupt(r) ==
    IF Text(r) = "" THEN [r |-> r, hit |-> NoneV]
    ELSE
      LET text == Strip(Text(r))
          marked(reason, intent, target) ==
              [r EXCEPT !.s.interrupted_from = r.s.current_state,
                        !.s.context_data["order_interrupted"] = TRUE,
                        !.s.context_data["interrupt_reason"] = reason,
                        !.s.classified_intent = intent,
                        !.s.current_state = target]
      IN
      IF HasAny(ProductWords, text) THEN
        LET r1 == [r EXCEPT !.s.interrupted_from = r.s.current_state,
                            !.s.context_data["order_interrupted"] = TRUE,
                            !.s.context_data["interrupt_reason"] = "product_questions",
                            !.s.context_data["interrupt_snapshot"] =
                                <<Ctx(r, "contact_question_shown"),
                                  Ctx(r, "org_question_shown"),
                                  Ctx(r, "type_question_shown")>>,
                            !.s.classified_intent = "Has Questions about Product",
                            !.s.current_state = "HAS_QUESTIONS_ABOUT_PRODUCT"]
            r2 == SetCtx(Say(r1, "interrupt_product_questions"),
                         "product_question_prompted", TRUE)
        IN [r |-> r2, hit |-> "HAS_QUESTIONS_ABOUT_PRODUCT"]
      ELSE IF wants_human(text) THEN
        [r |-> marked("wants_human", "Wants Human", "WANTS_HUMAN"),
         hit |-> "WANTS_HUMAN"]
      ELSE IF wants_end(text) THEN
        [r |-> Say(marked("end_conversation", "End conversation", "END"),
                   "interrupt_goodbye"),
         hit |-> "END"]
      ELSE [r |-> r, hit |-> NoneV]

\* ---------------------------------------------------------- contact nodes
\* the resume sentinel: clear the text and reset the "shown" flag
OnResume(r, shownKey) ==
    IF Text(r) = "__RESUME__" THEN SetCtx(SetText(r, ""), shownKey, FALSE) ELSE r

\* a first-name node that reads the reply before looking for an interrupt
order_contact_first_name_node_unguarded(r0) ==
    LET r == OnResume(r0, "contact_first_name_shown") IN
    IF ~Ctx(r, "contact_first_name_shown") THEN
      SetText(SetCtx(Say(r, "ask_first_name"), "contact_first_name_shown", TRUE), "")
    ELSE IF Text(r) # "" THEN
      SetText(Say(SetCtx(SetOrder(r, "first_name", Strip(Text(r))),
                         "contact_first_name_complete", TRUE), "ack_first_name"), "")
    ELSE r

order_contact_first_name_node(r0) ==
    LET ci == check_interrupt(r0) IN
    IF ci.hit # NoneV THEN ci.r
    ELSE
      LET r == OnResume(r0, "contact_first_name_shown") IN
      IF ~Ctx(r, "contact_first_name_shown") THEN
        SetText(SetCtx(Say(r, "ask_first_name"), "contact_first_name_shown", TRUE), "")
      ELSE IF Text(r) # "" THEN
        LET first_name == Strip(Text(r)) IN
        SetText(IF first_name # ""
                THEN Say(SetCtx(SetOrder(r, "first_name", first_name),
                                "contact_first_name_complete", TRUE), "ack_first_name")
                ELSE Say(r, "reprompt_first_name"), "")
      ELSE r

order_contact_last_name_node(r0) ==
    LET ci == check_interrupt(r0) IN
    IF ci.hit # NoneV THEN ci.r
    ELSE
      LET r == OnResume(r0, "contact_last_name_shown") IN
      IF ~Ctx(r, "contact_last_name_shown") THEN
        SetText(SetCtx(Say(r, "ask_last_name"), "contact_last_name_shown", TRUE), "")
      ELSE IF Text(r) # "" THEN
        LET last_name == Strip(Text(r)) IN
        SetText(IF last_name # ""
                THEN Say(SetCtx(SetOrder(r, "last_name", last_name),
                                "contact_last_name_complete", TRUE), "ack_last_name")
                ELSE Say(r, "reprompt_last_name"), "")
      ELSE r

\* an email node that leaves a rejected answer pending
order_contact_email_node_keeps_text(r0) ==
    LET ci == check_interrupt(r0) IN
    IF ci.hit # NoneV THEN ci.r
    ELSE
      LET r == OnResume(r0, "contact_email_shown") IN
      IF ~Ctx(r, "contact_email_shown") THEN
        SetText(SetCtx(Say(r, "ask_email"), "contact_email_shown", TRUE), "")
      ELSE IF Text(r) # "" THEN
        LET email == Strip(Text(r)) IN
        IF email # "" /\ Has("@", email)
        THEN SetText(Say(SetCtx(SetOrder(r, "email", email),
                                "contact_email_complete", TRUE), "ack_email"), "")
        ELSE Say(r, "reprompt_email")
      ELSE r

\* an email node that stores whatever was typed
order_contact_email_node_unchecked(r0) ==
    LET ci == check_interrupt(r0) IN
    IF ci.hit # NoneV THEN ci.r
    ELSE
      LET r == OnResume(r0, "contact_email_shown") IN
      IF ~Ctx(r, "contact_email_shown") THEN
        SetText(SetCtx(Say(r, "ask_email"), "contact_email_shown", TRUE), "")
      ELSE IF Text(r) # "" THEN
        LET email == Strip(Text(r)) IN
        SetText(IF email # ""
                THEN Say(SetCtx(SetOrder(r, "email", email),
                                "contact_email_complete", TRUE), "ack_email")
                ELSE Say(r, "reprompt_email"), "")
      ELSE r

order_contact_email_node(r0) ==
    LET ci == check_interrupt(r0) IN
    IF ci.hit # NoneV THEN ci.r
    ELSE
      LET r == OnResume(r0, "contact_email_shown") IN
      IF ~Ctx(r, "contact_email_shown") THEN
        SetText(SetCtx(Say(r, "ask_email"), "contact_email_shown", TRUE), "")
      ELSE IF Text(r) # "" THEN
        LET email == Strip(Text(r)) IN
        SetText(IF email # "" /\ Has("@", email)
                THEN Say(SetCtx(SetOrder(r, "email", email),
                                "contact_email_complete", TRUE), "ack_email")
                ELSE Say(r, "reprompt_email"), "")
      ELSE r

order_contact_phone_node(r0) ==
    LET ci == check_interrupt(r0) IN
    IF ci.hit # NoneV THEN ci.r
    ELSE
      LET r == OnResume(r0, "contact_phone_shown") IN
      IF ~Ctx(r, "contact_phone_shown") THEN
        SetText(SetCtx(Say(r, "ask_phone"), "contact_phone_shown", TRUE), "")
      ELSE IF Text(r) # "" THEN
        LET phone == Strip(Text(r)) IN
        SetText(IF phone # ""
                THEN Say(SetCtx(SetCtx(SetOrder(r, "phone", phone),
                                       "contact_phone_complete", TRUE),
                                "contact_complete", TRUE), "ack_phone")
                ELSE Say(r, "reprompt_phone"), "")
      ELSE r

\* ------------------------------------------------------- organization node
\* organization.is_business is "True" / "False" / NoneV
order_organization_node(r0) ==
    LET ci == check_interrupt(r0) IN
    IF ci.hit # NoneV THEN ci.r
    ELSE
      LET r == OnResume(r0, "org_type_shown") IN
      IF ~Ctx(r, "org_type_shown") THEN
        SetText(SetCtx(Say(r, "ask_org_type"), "org_type_shown", TRUE), "")
      ELSE IF Text(r) # "" /\ Ctx(r, "org_type_shown") /\ ~Ctx(r, "org_name_shown") THEN
        LET text == Strip(Text(r)) IN
        IF HasAny({"no", "personal"}, text) THEN
          SetText(SetCtx(SetOrder(SetOrder(r, "is_business", "False"), "org_name", NoneV),
                         "org_complete", TRUE), "")
        ELSE IF HasAny({"yes", "business", "organization", "team"}, text) THEN
          SetText(SetCtx(Say(r, "ask_org_name"), "org_name_shown", TRUE), "")
        ELSE SetText(Say(r, "reprompt_org_type"), "")
      ELSE IF Text(r) # "" /\ Ctx(r, "org_name_shown") THEN
        LET name == Strip(Text(r)) IN
        IF name # "" THEN
          SetText(SetCtx(SetOrder(SetOrder(r, "is_business", "True"), "org_name", name),
                         "org_complete", TRUE), "")
        ELSE SetText(Say(r, "reprompt_org_name"), "")
      ELSE SetText(r, "")

\* --------------------------------------------------------------- type node
TypeChoices == <<"Corporate hiring", "School/spirit wear", "Sports team",
                 "Retail resale", "Employee uniforms", "Other">>

\* c.lower() for the six labels
TypeChoicesLower == <<"corporate hiring", "school/spirit wear", "sports team",
                      "retail resale", "employee uniforms", "other">>

\* the value order_type_node derives from a stripped lower-case reply, or NoneV
TypeValue(txt) ==
    IF Len(txt) = 1 /\ txt \in {"1", "2", "3", "4", "5", "6"}
    THEN TypeChoices[IntOf(txt)]
    ELSE IF \E i \in 1..6 : Has(TypeChoicesLower[i], txt)
         THEN TypeChoices[CHOOSE i \in 1..6 :
                    /\ Has(TypeChoicesLower[i], txt)
                    /\ \A j \in 1..(i - 1) : ~Has(TypeChoicesLower[j], txt)]
         ELSE NoneV

\* a type node that takes whatever text is pending as the answer, before it
\* looks at its shown flag
order_type_node_eager(r) ==
    LET ci == check_interrupt(r) IN
    IF ci.hit # NoneV THEN SetText(ci.r, "")
    ELSE
      IF Ctx(r, "type_question_shown") /\ Text(r) = "" THEN r
      ELSE IF Text(r) # "" THEN
        LET val == TypeValue(Strip(Text(r))) IN
        IF val = NoneV THEN SetText(Say(r, "reprompt_type"), "")
        ELSE SetText(Say(SetCtx(SetOrder(r, "order_type", val), "type_complete", TRUE),
                         "ack_type"), "")
      ELSE IF ~Ctx(r, "type_question_shown") THEN
        SetText(SetCtx(Say(r, "ask_type"), "type_question_shown", TRUE), "")
      ELSE SetText(r, "")

order_type_node(r0) ==
    LET ci == check_interrupt(r0) IN
    IF ci.hit # NoneV THEN SetText(ci.r, "")
    ELSE
      LET r == OnResume(r0, "type_question_shown") IN
      IF Ctx(r, "type_question_shown") /\ Text(r) = "" THEN r
      ELSE IF ~Ctx(r, "type_question_shown") THEN
        SetText(SetCtx(Say(r, "ask_type"), "type_question_shown", TRUE), "")
      ELSE IF Text(r) # "" THEN
        LET val == TypeValue(Strip(Text(r))) IN
        IF val = NoneV THEN SetText(Say(r, "reprompt_type"), "")
        ELSE SetText(Say(SetCtx(SetOrder(r, "order_type", val), "type_complete", TRUE),
                         "ack_type"), "")
      ELSE SetText(r, "")

\* ------------------------------------------------------------- budget node
order_budget_node(r0) ==
    LET ci == check_interrupt(r0) IN
    IF ci.hit # NoneV THEN SetText(ci.r, "")
    ELSE
      LET r == OnResume(r0, "budget_question_shown") IN
      IF Text(r) = "__RESUME__" THEN SetText(r, "")
      ELSE IF Ctx(r, "budget_question_shown") /\ Text(r) = "" THEN r
      ELSE IF ~Ctx(r, "budget_question_shown") THEN
        SetText(SetCtx(Say(r, "ask_budget"), "budget_question_shown", TRUE), "")
      ELSE IF Text(r) # "" THEN
        LET txt == Strip(Text(r))
            val == IF txt = "1" \/ Has("premium", txt) THEN "Premium"
                   ELSE IF txt = "2" \/ Has("value", txt) THEN "Value" ELSE NoneV
        IN
        IF val = NoneV THEN SetText(Say(r, "reprompt_budget"), "")
        ELSE SetText(Say(SetCtx(SetOrder(r, "budget_range", val), "budget_complete", TRUE),
                         "ack_budget"), "")
      ELSE SetText(r, "")

\* ------------------------------------------------------------ service node
order_service_node(r0) ==
    LET ci == check_interrupt(r0) IN
    IF ci.hit # NoneV THEN SetText(ci.r, "")
    ELSE
      LET r == OnResume(OnResume(r0, "service_question_shown"), "service_question_shown") IN
      IF Ctx(r, "service_question_shown") /\ Text(r) = "" THEN r
      ELSE IF ~Ctx(r, "service_question_shown") THEN
        SetText(SetCtx(Say(r, "ask_service"), "service_question_shown", TRUE), "")
      ELSE IF Text(r) # "" THEN
        LET txt == Strip(Text(r))
            val == IF txt = "1" \/ Has("screen", txt) THEN "Screen Printing"
                   ELSE IF txt = "2" \/ Has("embroider", txt) THEN "Embroidery" ELSE NoneV
        IN
        IF val = NoneV THEN SetText(Say(r, "reprompt_service"), "")
        ELSE SetText(Say(SetCtx(SetOrder(r, "service_type", val), "service_complete", TRUE),
                         "ack_service"), "")
      ELSE SetText(r, "")

\* ------------------------------------------------------------ apparel node
\* order_flow.PRODUCT_CATALOG, in insertion order
Products == <<"t-shirt", "hoodie", "hat", "polo">>

ProductColors(p) ==
    CASE p = "t-shirt" -> <<"white", "black", "navy", "red", "gray">>
      [] p = "hoodie" -> <<"black", "gray", "navy">>
      [] p = "hat" -> <<"black", "white", "navy", "khaki">>
      [] p = "polo" -> <<"white", "black", "navy">>

IsLetters(t) == Len(t) > 0 /\ \A i \in 1..Len(t) : Ch(t, i) \in Letters

\* re.match(r"^\s*(\d{1,2})(?:\s*[,;]\s*([a-zA-Z]+))?\s*$", txt):
\* <<number text, colour hint or "">>, or <<>> when there is no match
NumericSelection(txt) ==
    IF IsDigits(txt) /\ Len(txt) <= 2 THEN <<txt, "">>
    ELSE IF \E p \in 1..Len(txt) : Ch(txt, p) \in {",", ";"} THEN
      LET p == CHOOSE q \in 1..Len(txt) :
                    /\ Ch(txt, q) \in {",", ";"}
                    /\ \A k \in 1..(q - 1) : Ch(txt, k) \notin {",", ";"}
          left == RStrip(SubSeq(txt, 1, p - 1))
          right == LStrip(SubSeq(txt, p + 1, Len(txt)))
      IN IF IsDigits(left) /\ Len(left) <= 2 /\ IsLetters(right)
         THEN <<left, right>> ELSE <<>>
    ELSE <<>>

FirstIn(q, S) ==
    IF \E i \in 1..Len(q) : q[i] \in S
    THEN q[CHOOSE i \in 1..Len(q) : q[i] \in S /\ \A j \in 1..(i - 1) : q[j] \notin S]
    ELSE NoneV

\* order_flow.parse_product_and_color: <<product, colour>>
parse_product_and_color(text) ==
    IF text = "" THEN <<NoneV, NoneV>>
    ELSE
      LET txt == Strip(text)
          num == NumericSelection(txt)
          toks == SeqToSet(tok(txt))
          hit(p) == SeqToSet(tok(p)) \cap toks # {}
          byText ==
              IF \E i \in 1..4 : hit(Products[i]) THEN
                LET p == Products[CHOOSE i \in 1..4 :
                              hit(Products[i]) /\ \A j \in 1..(i - 1) : ~hit(Products[j])]
                IN <<p, FirstIn(ProductColors(p), toks)>>
              ELSE <<NoneV, NoneV>>
      IN
      IF num # <<>> /\ IntOf(num[1]) >= 1 /\ IntOf(num[1]) <= 4 THEN
        LET product == Products[IntOf(num[1])] IN
        <<product,
          IF num[2] # "" /\ num[2] \in SeqToSet(ProductColors(product))
          THEN num[2] ELSE NoneV>>
      ELSE byText

order_apparel_node(r0) ==
    LET ci == check_interrupt(r0) IN
    IF ci.hit # NoneV THEN SetText(ci.r, "")
    ELSE
      LET r == OnResume(OnResume(r0, "apparel_question_shown"), "apparel_question_shown") IN
      IF Ctx(r, "apparel_question_shown") /\ Text(r) = "" THEN r
      ELSE IF ~Ctx(r, "apparel_question_shown") THEN
        SetText(SetCtx(Say(r, "ask_apparel"), "apparel_question_shown", TRUE), "")
      ELSE IF Text(r) # "" THEN
        LET pc == parse_product_and_color(Text(r)) IN
        IF pc[1] = NoneV THEN SetText(Say(r, "reprompt_apparel"), "")
        ELSE
          LET r1 == SetOrder(SetOrder(r, "apparel_category", pc[1]), "product_name", pc[1])
              r2 == IF pc[2] # NoneV THEN SetOrder(r1, "color", pc[2]) ELSE r1
          IN SetText(Say(SetCtx(r2, "apparel_complete", TRUE), "ack_apparel"), "")
      ELSE SetText(r, "")

\* ------------------------------------------------------------ product node
order_product_node(r0) ==
    LET ci == check_interrupt(r0) IN
    IF ci.hit # NoneV THEN SetText(ci.r, "")
    ELSE
      LET r == OnResume(r0, "product_question_shown") IN
      IF Ctx(r, "product_question_shown") /\ Text(r) = "" THEN r
      ELSE IF ~Ctx(r, "product_question_shown") THEN
        IF r.s.order.product_name # NoneV /\ r.s.order.color = NoneV THEN
          SetText(SetCtx(Say(r, "ask_color"), "product_question_shown", TRUE), "")
        ELSE SetText(SetCtx(r, "product_complete", TRUE), "")
      ELSE IF Text(r) # "" THEN
        LET raw == Strip(Text(r))
            r1 == IF r.s.order.product_name # NoneV
                  THEN (IF Has("no preference", raw) \/ Has("any", raw)
                        THEN SetOrder(r, "color", NoneV)
                        ELSE SetOrder(r, "color", raw))
                  ELSE r
        IN SetText(SetCtx(r1, "product_complete", TRUE), "")
      ELSE SetText(r, "")

\* --------------------------------------------------------------- logo node
\* (the uuid stored under upload_key is not modelled)
order_logo_node(r0) ==
    LET ci == check_interrupt(r0) IN
    IF ci.hit # NoneV THEN SetText(ci.r, "")
    ELSE
      LET r == OnResume(r0, "logo_complete") IN
      IF Ctx(r, "logo_complete") THEN SetText(r, "")
      ELSE IF Ctx(r, "logo_question_shown") /\ Text(r) = "" THEN r
      ELSE IF ~Ctx(r, "logo_question_shown") THEN
        SetText(Say(SetCtx(SetCtx(r, "logo_question_shown", TRUE), "awaiting_upload", TRUE),
                    "ask_logo"), "")
      ELSE IF Text(r) # "" THEN
        LET txt == Strip(Text(r)) IN
        IF txt = "continue" /\ Ctx(r, "logo_complete") THEN SetText(r, "")
        ELSE IF txt \in {"skip", "no", "none", "no logo"} THEN
          SetText(Say(SetCtx(SetCtx(r, "logo_complete", TRUE), "awaiting_upload", FALSE),
                      "ack_logo_skip"), "")
        ELSE SetText(Say(r, "reprompt_logo"), "")
      ELSE SetText(r, "")

\* ------------------------------------------------- decoration location node
LowerAlphabet == "abcdefghijklmnopqrstuvwxyz"
UpperAlphabet == "ABCDEFGHIJKLMNOPQRSTUVWXYZ"

UpperCh(c) ==
    IF c \in Letters
    THEN Ch(UpperAlphabet, CHOOSE i \in 1..26 : Ch(LowerAlphabet, i) = c)
    ELSE c

\* str.capitalize() of a lower-case text
Capitalize(t) == IF t = "" THEN "" ELSE UpperCh(Ch(t, 1)) \o SubSeq(t, 2, Len(t))

\* str.title() of a lower-case text
RECURSIVE TitleFrom(_, _)
TitleFrom(t, i) ==
    IF i > Len(t) THEN ""
    ELSE (IF i = 1 \/ Ch(t, i - 1) \notin Letters THEN UpperCh(Ch(t, i)) ELSE Ch(t, i))
         \o TitleFrom(t, i + 1)

Title(t) == TitleFrom(t, 1)

\* the loc_map stored by order_decoration_location_node, named by the branch
\* that built it
LocMapFor(service_type) ==
    IF service_type = "Screen Printing" THEN "screen"
    ELSE IF service_type = "Embroidery" THEN "embroidery" ELSE "fallback"

LocMap(m) ==
    CASE m = "screen" -> <<"Full Front", "Full Back", "Left Chest", "Right Chest",
                           "Left Sleeve", "Right Sleeve", "Small Upper Back", "Front Center">>
      [] m = "embroidery" -> <<"Front Left Panel", "Front Right Panel", "Back", "Front Center">>
      [] m = "fallback" -> <<"Left Chest", "Right Chest", "Front Center", "Back">>
      [] OTHER -> <<>>

InLocMap(m, text) ==
    IsDigits(text) /\ Len(text) = 1 /\ IntOf(text) >= 1 /\ IntOf(text) <= Len(LocMap(m))

order_decoration_location_node(r0) ==
    LET ci == check_interrupt(r0) IN
    IF ci.hit # NoneV THEN ci.r
    ELSE
      LET r == OnResume(r0, "decoration_location_shown") IN
      IF ~Ctx(r, "decoration_location_shown") THEN
        SetText(SetCtx(Say(SetCtx(r, "loc_map", LocMapFor(r.s.order.service_type)),
                           "ask_decoration_location"),
                       "decoration_location_shown", TRUE), "")
      ELSE IF Text(r) # "" THEN
        LET text == Strip(Text(r))
            location == IF InLocMap(Ctx(r, "loc_map"), text)
                        THEN LocMap(Ctx(r, "loc_map"))[IntOf(text)]
                        ELSE IF text # "" THEN Capitalize(text) ELSE NoneV
        IN
        IF location # NoneV THEN
          SetText(SetCtx(SetOrder(r, "decoration_location", location),
                         "decoration_location_complete", TRUE), "")
        ELSE SetText(Say(r, "reprompt_decoration_location"), "")
      ELSE r

\* --------------------------------------------------- decoration colors node
order_decoration_colors_node(r0) ==
    LET ci == check_interrupt(r0) IN
    IF ci.hit # NoneV THEN SetText(ci.r, "")
    ELSE
      LET r == OnResume(r0, "decoration_colors_shown") IN
      IF Ctx(r, "decoration_colors_shown") /\ Text(r) = "" THEN r
      ELSE IF ~Ctx(r, "decoration_colors_shown") THEN
        SetText(SetCtx(Say(r, "ask_decoration_colors"), "decoration_colors_shown", TRUE), "")
      ELSE IF Text(r) # "" THEN
        LET txt == Strip(Text(r))
            nums == DigitRuns(Text(r))
            done(v) == SetText(Say(SetCtx(SetOrder(r, "decoration_colors", v),
                                          "decoration_colors_complete", TRUE),
                                   "ack_decoration_colors"), "")
        IN
        IF txt \in {"skip", "not sure", "don't know", "unsure"} THEN done(NoneInt)
        ELSE IF nums # <<>> THEN done(IntOf(nums[1]))
        ELSE SetText(Say(r, "reprompt_decoration_colors"), "")
      ELSE SetText(r, "")

\* ----------------------------------------------------------- quantity node
\* "screen" in service.lower() / "embroider" in service.lower()
ServiceKind(service_type) ==
    IF service_type = "Screen Printing" THEN "screen"
    ELSE IF service_type = "Embroidery" THEN "embroider" ELSE "other"

RangeMap(kind) ==
    CASE kind = "screen" -> <<"24-50", "51-100", "101-200", "201-350", "351+">>
      [] kind = "embroider" -> <<"6-10", "11-20", "21-50", "51-100", "101+">>
      [] OTHER -> <<"0-10", "11-20", "21-50", "51-100", "101-200", "201+">>

order_quantity_node(r0) ==
    LET ci == check_interrupt(r0) IN
    IF ci.hit # NoneV THEN SetText(ci.r, "")
    ELSE
      LET r == OnResume(r0, "qty_question_shown")
          range_map == RangeMap(ServiceKind(r.s.order.service_type))
      IN
      IF Ctx(r, "qty_question_shown") /\ Text(r) = "" THEN r
      ELSE IF ~Ctx(r, "qty_question_shown") THEN
        SetText(SetCtx(Say(r, "ask_quantity"), "qty_question_shown", TRUE), "")
      ELSE IF Text(r) # "" THEN
        LET txt == Strip(Text(r)) IN
        IF txt \in {"yes", "y", "yeah", "yep", "sure"} THEN
          SetText([r EXCEPT !.s.context_data["exact_sizes_mode"] = TRUE,
                            !.s.context_data["exact_sizes_started"] = TRUE,
                            !.s.context_data["sizes_complete"] = FALSE,
                            !.s.context_data["used_range_path"] = FALSE,
                            !.s.context_data["size_step"] = 0,
                            !.s.context_data["sizes_collected"] = <<>>,
                            !.s.context_data["qty_complete"] = TRUE], "")
        ELSE IF ~IsDigits(txt) THEN SetText(Say(r, "reprompt_quantity"), "")
        ELSE IF ~(IntOf(txt) >= 1 /\ IntOf(txt) <= Len(range_map)) THEN
          SetText(Say(r, "reprompt_quantity_option"), "")
        ELSE
          SetText(Say([r EXCEPT !.s.order.total_quantity = range_map[IntOf(txt)],
                                !.s.order.sizes = <<>>,
                                !.s.context_data["used_range_path"] = TRUE,
                                !.s.context_data["qty_complete"] = TRUE,
                                !.s.context_data["sizes_complete"] = TRUE],
                      "ack_quantity_range"), "")
      ELSE SetText(r, "")

\* ------------------------------------------------------------- size parser
UpperLetters == {Ch(UpperAlphabet, i) : i \in 1..26}

\* str.lower()
LowerCh(c) ==
    IF c \in UpperLetters
    THEN Ch(LowerAlphabet, CHOOSE i \in 1..26 : Ch(UpperAlphabet, i) = c)
    ELSE c

RECURSIVE Lower(_)
Lower(t) == IF t = "" THEN "" ELSE LowerCh(Ch(t, 1)) \o Lower(SubSeq(t, 2, Len(t)))

\* the character classes of the three patterns of parse_sizes
LetterCh == Letters \cup UpperLetters
LabelCh == LetterCh \cup {"-"}
WordCh == LetterCh \cup Digits \cup {"_"}

\* \b in front of position i (1..Len(t)+1)
WordAt(t, k) == k >= 1 /\ k <= Len(t) /\ Ch(t, k) \in WordCh
Boundary(t, i) == WordAt(t, i - 1) # WordAt(t, i)

\* the position after the longest run of characters of S that starts at i
RunEnd(t, i, S) ==
    CHOOSE j \in i..(Len(t) + 1) :
       /\ \A k \in i..(j - 1) : Ch(t, k) \in S
       /\ j = Len(t) + 1 \/ Ch(t, j) \notin S

\* \b([A-Za-z\-]+)\s*:\s*(\d{1,4})\b matched at position i: the label, the
\* quantity and the position after the match, or <<>>
LabelColonQty(t, i) ==
    IF ~(Ch(t, i) \in LabelCh /\ Boundary(t, i)) THEN <<>>
    ELSE
      LET j == RunEnd(t, i, LabelCh)
          k == RunEnd(t, j, {" "})
      IN
      IF ~(k <= Len(t) /\ Ch(t, k) = ":") THEN <<>>
      ELSE
        LET m == RunEnd(t, k + 1, {" "})
            n == RunEnd(t, m, Digits)
        IN
        IF n - m >= 1 /\ n - m <= 4 /\ Boundary(t, n)
        THEN <<[label |-> SubSeq(t, i, j - 1), qty |-> SubSeq(t, m, n - 1), end |-> n]>>
        ELSE <<>>

\* \b(\d{1,4})\s*([A-Za-z]{1,4})\b matched at position i
QtyLabel(t, i) ==
    IF ~(Ch(t, i) \in Digits /\ Boundary(t, i)) THEN <<>>
    ELSE
      LET n == RunEnd(t, i, Digits)
          k == RunEnd(t, n, {" "})
          j == RunEnd(t, k, LetterCh)
      IN
      IF n - i <= 4 /\ j - k >= 1 /\ j - k <= 4 /\ Boundary(t, j)
      THEN <<[label |-> SubSeq(t, k, j - 1), qty |-> SubSeq(t, i, n - 1), end |-> j]>>
      ELSE <<>>

\* [A-Za-z\-]+\b can be matched at position k
LabelThenBoundary(t, k) ==
    \E p \in (k + 1)..RunEnd(t, k, LabelCh) : Boundary(t, p)

\* \b(\d{1,4})\s+(x\s*)?([A-Za-z\-]+)\b can be matched at position i
QtyTimesLabel(t, i) ==
    /\ Ch(t, i) \in Digits
    /\ Boundary(t, i)
    /\ LET n == RunEnd(t, i, Digits)
           k == RunEnd(t, n, {" "})
       IN /\ n - i <= 4
          /\ k > n
          /\ \/ LabelThenBoundary(t, k)
             \/ /\ k <= Len(t)
                /\ Ch(t, k) \in {"x", "X"}
                /\ LabelThenBoundary(t, RunEnd(t, k + 1, {" "}))

\* re.findall for a pattern matched by M(t, i): the matches from position i
\* on, left to right, without overlap
RECURSIVE FindAll(_, _, _)
FindAll(M(_, _), t, i) ==
    IF i > Len(t) THEN <<>>
    ELSE IF M(t, i) # <<>> THEN M(t, i) \o FindAll(M, t, M(t, i)[1].end)
    ELSE FindAll(M, t, i + 1)

\* order_flow.SIZE_ALIASES and _canonical_size
SIZE_ALIASES ==
    <<<<"xs", {"xs", "x-small", "xsmall"}>>,
      <<"s", {"s", "sm", "small"}>>,
      <<"m", {"m", "med", "medium"}>>,
      <<"l", {"l", "lg", "large"}>>,
      <<"xl", {"xl", "xlarge", "x-large"}>>,
      <<"2xl", {"2xl", "xxl", "2x", "xx-large"}>>,
      <<"3xl", {"3xl", "xxxl", "3x"}>>>>

canonical_size(token) ==
    LET hits == {i \in 1..Len(SIZE_ALIASES) : Lower(token) \in SIZE_ALIASES[i][2]} IN
    IF hits = {} THEN NoneV
    ELSE SIZE_ALIASES[CHOOSE i \in hits : \A j \in hits : i <= j][1]

\* sizes[key] = sizes.get(key, 0) + qty
AddSize(sizes, key, qty) ==
    [k \in DOMAIN sizes \cup {key} |->
        (IF k \in DOMAIN sizes THEN sizes[k] ELSE 0) + (IF k = key THEN qty ELSE 0)]

\* one loop of parse_sizes over the matches of a pattern
RECURSIVE AddMatches(_, _)
AddMatches(sizes, ms) ==
    IF ms = <<>> THEN sizes
    ELSE AddMatches(IF canonical_size(ms[1].label) # NoneV
                    THEN AddSize(sizes, canonical_size(ms[1].label), IntOf(ms[1].qty))
                    ELSE sizes,
                    Tail(ms))

\* order_flow.parse_sizes: the dict returned, or the error raised.  The third
\* loop unpacks the three groups of its pattern into two names, which raises
\* ValueError on the first match.
parse_sizes(text) ==
    IF text = "" THEN [err |-> NoneV, sizes |-> <<>>]
    ELSE
      LET first == AddMatches(<<>>, FindAll(LabelColonQty, text, 1))
          second == AddMatches(first, FindAll(QtyLabel, text, 1))
      IN
      IF \E i \in 1..Len(text) : QtyTimesLabel(text, i)
      THEN [err |-> "ValueError", sizes |-> <<>>]
      ELSE [err |-> NoneV, sizes |-> second]

\* -------------------------------------------------------------- sizes node
size_sequence == <<"S", "M", "L", "XL", "2XL", "3XL", "4XL">>

RECURSIVE SumQty(_)
SumQty(q) == IF q = <<>> THEN 0 ELSE q[1].quantity + SumQty(Tail(q))

\* the bucket order_sizes_node maps a numeric total into
Bucket(kind, total) ==
    CASE kind = "screen" ->
           IF total <= 50 THEN "24-50" ELSE IF total <= 100 THEN "51-100"
           ELSE IF total <= 200 THEN "101-200" ELSE IF total <= 350 THEN "201-350"
           ELSE "351+"
      [] kind = "embroider" ->
           IF total <= 10 THEN "6-10" ELSE IF total <= 20 THEN "11-20"
           ELSE IF total <= 50 THEN "21-50" ELSE IF total <= 100 THEN "51-100"
           ELSE "101+"
      [] OTHER ->
           IF total <= 10 THEN "0-10" ELSE IF total <= 20 THEN "11-20"
           ELSE IF total <= 50 THEN "21-50" ELSE IF total <= 100 THEN "51-100"
           ELSE IF total <= 200 THEN "101-200" ELSE "201+"

order_sizes_node(r0) ==
    LET ci == check_interrupt(r0) IN
    IF ci.hit # NoneV THEN SetText(ci.r, "")
    ELSE IF ~Ctx(r0, "exact_sizes_mode") THEN
      SetText(SetCtx(r0, "sizes_complete", TRUE), "")
    ELSE
      LET r == OnResume(r0, "sizes_question_shown")
          size_step == Ctx(r, "size_step")
          sizes_collected == Ctx(r, "sizes_collected")
      IN
      IF Ctx(r, "sizes_question_shown") /\ Text(r) = "" THEN r
      ELSE
        LET txt == Strip(Text(r))
            answering == Ctx(r, "sizes_question_shown") /\ Text(r) # ""
            invalid == answering /\ txt \notin {"skip", "none", "no", "0"} /\ ~IsDigits(txt)
            qty == IF txt \in {"skip", "none", "no", "0"} THEN 0 ELSE IntOf(txt)
            collected == IF answering /\ size_step < Len(size_sequence)
                         THEN Append(sizes_collected,
                                     [size |-> size_sequence[size_step + 1], quantity |-> qty])
                         ELSE sizes_collected
            step == IF answering THEN size_step + 1 ELSE size_step
            r1 == IF answering
                  THEN SetText([r EXCEPT !.s.context_data["sizes_collected"] = collected,
                                         !.s.context_data["size_step"] = step,
                                         !.s.context_data["sizes_question_shown"] = FALSE], "")
                  ELSE r
        IN
        IF invalid THEN SetText(Say(r, "reprompt_sizes"), "")
        ELSE IF step >= Len(size_sequence) THEN
          LET total == SumQty(collected)
              range_str == Bucket(ServiceKind(r1.s.order.service_type), total)
          IN SetText(Say([r1 EXCEPT
                            !.s.order.total_quantity = range_str,
                            !.s.order.sizes = SelectSeq(collected, LAMBDA e : e.quantity > 0),
                            !.s.context_data["qty_complete"] = TRUE,
                            !.s.context_data["sizes_complete"] = TRUE,
                            !.s.context_data["exact_sizes_started"] = TRUE,
                            !.s.context_data["used_range_path"] = FALSE],
                         "sizes_done"), "")
        ELSE SetText(SetCtx(Say(r1, "ask_size"), "sizes_question_shown", TRUE), "")

\* ----------------------------------------------------------- delivery nodes
order_delivery_node(r0) ==
    LET ci == check_interrupt(r0) IN
    IF ci.hit # NoneV THEN SetText(ci.r, "")
    ELSE
      LET r == OnResume(r0, "delivery_question_shown") IN
      IF Ctx(r, "delivery_question_shown") /\ Text(r) = "" THEN r
      ELSE IF ~Ctx(r, "delivery_question_shown") THEN
        SetText(SetCtx(Say(r, "ask_delivery"), "delivery_question_shown", TRUE), "")
      ELSE IF Text(r) # "" THEN
        LET txt == Strip(Text(r)) IN
        IF Has("deliver", txt) THEN
          SetText(SetCtx(Say(SetOrder(r, "delivery_option", "Delivery"),
                             "ask_delivery_address"), "awaiting_address", TRUE), "")
        ELSE IF Has("pickup", txt) THEN
          SetText(Say(SetCtx(SetOrder(r, "delivery_option", "Pick Up"),
                             "delivery_complete", TRUE), "ack_pickup"), "")
        ELSE SetText(Say(r, "reprompt_delivery"), "")
      ELSE SetText(r, "")

\* text[:240]
First240(t) == IF Len(t) > 240 THEN SubSeq(t, 1, 240) ELSE t

order_delivery_address_node(r0) ==
    LET ci == check_interrupt(r0) IN
    IF ci.hit # NoneV THEN SetText(ci.r, "")
    ELSE
      LET r == OnResume(r0, "address_question_shown") IN
      IF Ctx(r, "address_question_shown") /\ Text(r) = "" THEN r
      ELSE IF ~Ctx(r, "awaiting_address") THEN
        SetText(SetCtx(r, "delivery_complete", TRUE), "")
      ELSE IF ~Ctx(r, "address_question_shown") THEN
        SetText(SetCtx(Say(r, "ask_address_one_line"), "address_question_shown", TRUE), "")
      ELSE IF Text(r) # "" THEN
        SetText(Say(SetCtx(SetCtx(SetOrder(r, "delivery_address", First240(Strip(Text(r)))),
                                  "awaiting_address", FALSE),
                           "delivery_complete", TRUE), "ack_address"), "")
      ELSE SetText(r, "")

\* ------------------------------------------------------------ summary node
\* flows/email_sender.send_email: the call is recorded; it returns True only
\* when the SMTP exchange succeeded ("sent"), False when the mail settings
\* are missing ("unconfigured") or the exchange failed ("failed")
MailOutcomes == {"sent", "failed", "unconfigured"}

send_email(r, to_addr, outcome) ==
    [r EXCEPT !.mails = Append(@, [to |-> to_addr, outcome |-> outcome])]

\* order_flow._send_summary_to_customer: the run after the call and its result
send_summary_to_customer(r, outcome) ==
    LET to_addr == IF r.s.order.email = NoneV THEN "" ELSE Strip(r.s.order.email) IN
    IF to_addr = "" THEN [r |-> r, success |-> FALSE]
    ELSE [r |-> send_email(r, to_addr, outcome), success |-> outcome = "sent"]

valid_colors ==
    {"Aquatic Blue", "Ash", "Athletic Heater", "Athletic Maroon", "Candy Pink",
     "Bright Aqua", "Cardinal", "Carolina Blue", "Charcoal", "Clover Green",
     "Coyote Brown", "Dark Chocolate Brown", "Dark Green", "Dark Heather Grey",
     "Gold", "Graphite Heather", "Heather Athletic Maroon", "Heather Dark Choc Brown",
     "Heather Navy", "Heather Purple", "Heather Red", "Heather Royal",
     "Heather Sangria", "Jet Black", "Kelly", "Light Blue", "Lime", "Medium Grey",
     "Natural", "Navy", "Neon Blue", "Neon Green", "Neon Orange", "Neon Pink",
     "Neon Yellow", "Olive", "Olive Drab Green", "Orange", "Purple", "Red", "Royal",
     "Sand", "Sangria", "Sapphire", "Silver", "Steel Blue", "Teal", "Team Purple",
     "True Royal", "White", "Woodland Brown", "Yellow"}

\* one {field, new_value} pair of the change list applied by order_summary_node
\* (new values are lower-case texts; the "sizes" field is not offered):
\* the order after the pair, or the same order when the pair is rejected
ApplyChange(o, text, field, new_value) ==
    CASE field = "first_name" -> [o EXCEPT !.first_name = new_value]
      [] field = "last_name" -> [o EXCEPT !.last_name = new_value]
      [] field = "email" ->
           IF Has("@", new_value) /\ Has(".", new_value)
           THEN [o EXCEPT !.email = new_value] ELSE o
      [] field = "phone" ->
           IF Len(new_value) >= 10 THEN [o EXCEPT !.phone = new_value] ELSE o
      [] field = "organization" -> [o EXCEPT !.org_name = new_value]
      [] field = "order_type" ->
           IF new_value \in SeqToSet(TypeChoices)
           THEN [o EXCEPT !.order_type = new_value] ELSE o
      [] field = "budget_range" ->
           IF Has("budget", text) /\ Has("range", text)
              /\ Title(new_value) \in {"Premium", "Value"}
           THEN [o EXCEPT !.budget_range = Title(new_value)] ELSE o
      [] field = "service_type" ->
           IF Has("service", text) /\ Has("type", text)
              /\ Title(new_value) \in {"Screen Printing", "Embroidery"}
           THEN [o EXCEPT !.service_type = Title(new_value)] ELSE o
      [] field = "apparel_category" ->
           IF Has("apparel", text) /\ Has("category", text)
           THEN [o EXCEPT !.apparel_category = new_value] ELSE o
      [] field = "product_name" ->
           IF Has("product", text) THEN [o EXCEPT !.product_name = new_value] ELSE o
      [] field = "color" ->
           IF Title(Strip(new_value)) \in valid_colors
           THEN [o EXCEPT !.color = Title(Strip(new_value))] ELSE o
      [] field = "decoration_location" -> [o EXCEPT !.decoration_location = new_value]
      [] field = "decoration_colors" ->
           IF IsDigits(new_value) /\ IntOf(new_value) >= 1 /\ IntOf(new_value) <= 4
           THEN [o EXCEPT !.decoration_colors = IntOf(new_value)] ELSE o
      [] field = "total_quantity" ->
           IF Has("quantity", text) /\ IsDigits(new_value)
           THEN [o EXCEPT !.total_quantity = new_value] ELSE o
      [] field = "delivery_option" ->
           IF Has("delivery", text) /\ Title(new_value) \in {"Delivery", "Pickup"}
           THEN [o EXCEPT !.delivery_option = Title(new_value)] ELSE o
      [] field = "delivery_address" ->
           IF Len(new_value) > 0 THEN [o EXCEPT !.delivery_address = new_value] ELSE o
      [] OTHER -> o

\* whether the pair sets updated = True (an accepted pair, even when the new
\* value equals the old one)
ChangeAccepted(text, field, new_value) ==
    CASE field \in {"first_name", "last_name", "delivery_address"} -> Len(new_value) > 0
      [] field \in {"organization", "decoration_location"} -> TRUE
      [] field = "email" -> Has("@", new_value) /\ Has(".", new_value)
      [] field = "phone" -> Len(new_value) >= 10
      [] field = "order_type" -> new_value \in SeqToSet(TypeChoices)
      [] field = "budget_range" ->
           Has("budget", text) /\ Has("range", text) /\ Title(new_value) \in {"Premium", "Value"}
      [] field = "service_type" ->
           Has("service", text) /\ Has("type", text)
           /\ Title(new_value) \in {"Screen Printing", "Embroidery"}
      [] field = "apparel_category" -> Has("apparel", text) /\ Has("category", text)
      [] field = "product_name" -> Has("product", text)
      [] field = "color" -> Title(Strip(new_value)) \in valid_colors
      [] field = "decoration_colors" ->
           IsDigits(new_value) /\ IntOf(new_value) >= 1 /\ IntOf(new_value) <= 4
      [] field = "total_quantity" -> Has("quantity", text) /\ IsDigits(new_value)
      [] field = "delivery_option" ->
           Has("delivery", text) /\ Title(new_value) \in {"Delivery", "Pickup"}
      [] OTHER -> FALSE

\* a change list applied without the palette check on colours
RECURSIVE ApplyChanges_any_colour(_, _, _)
ApplyChanges_any_colour(o, text, changes) ==
    IF changes = <<>> THEN o
    ELSE LET c == changes[1] IN
         ApplyChanges_any_colour(
             IF c.field = "" \/ c.new_value = "" THEN o
             ELSE IF c.field = "color" THEN [o EXCEPT !.color = Title(Strip(c.new_value))]
             ELSE ApplyChange(o, text, c.field, c.new_value),
             text, Tail(changes))

RECURSIVE ApplyChanges(_, _, _)
ApplyChanges(o, text, changes) ==
    IF changes = <<>> THEN o
    ELSE LET c == changes[1] IN
         ApplyChanges(IF c.field = "" \/ c.new_value = "" THEN o
                      ELSE ApplyChange(o, text, c.field, c.new_value),
                      text, Tail(changes))

\* order_summary_node after its interrupt check (lines 1501-1717).
\* e.intent: the classifier's answer; e.mail: the outcome of send_email;
\* e.changes: the change list returned by the change parser; e.parse_ok is
\* FALSE when the call or the JSON decoding raises
summary_reply(r0, e) ==
    IF Text(r0) = "__RESUME__" THEN SetText(r0, "")
    ELSE IF ~Ctx(r0, "summary_shown") THEN
      SetText(SetCtx(Say(r0, "summary"), "summary_shown", TRUE), "")
    ELSE IF Text(r0) # "" THEN
      LET text == Strip(Text(r0))
          intent == e.intent
      IN
      IF intent = "Yes" \/ Has("yes", text) \/ Has("confirm", text) THEN
        LET sent == send_summary_to_customer(r0, e.mail)
            r1 == [sent.r EXCEPT !.s.context_data["order_confirmed"] = TRUE,
                                 !.s.context_data["order_complete"] = TRUE,
                                 !.s.current_state = "ORDER_POST_CONFIRMATION"]
        IN SetText(Say(r1, IF sent.success THEN "confirmed_summary_emailed"
                           ELSE "confirmed_will_process"), "")
      ELSE IF intent = "No" \/ Has("no", text) \/ Has("cancel", text) THEN
        SetText(Say(SetState(r0, "END"), "order_cancelled"), "")
      ELSE IF ~e.parse_ok THEN
        SetText(Say(r0, "change_error"), "")
      ELSE
        LET changes == e.changes
            live == SelectSeq(changes, LAMBDA c : c.field # "" /\ c.new_value # "")
            logo_requested == \E i \in 1..Len(live) : live[i].field = "logo"
            updated == \E i \in 1..Len(live) :
                           ChangeAccepted(text, live[i].field, live[i].new_value)
            r1 == [r0 EXCEPT !.s.order = ApplyChanges(r0.s.order, text, changes)]
            r2 == IF logo_requested THEN Say(r1, "logo_cannot_change") ELSE r1
        IN
        IF updated THEN SetText(Say(r2, "summary_updated"), "")
        ELSE IF ~logo_requested THEN
          LET ci2 == check_interrupt(r2) IN
          IF ci2.hit # NoneV THEN ci2.r
          ELSE SetText(Say(r2, "change_not_understood"), "")
        ELSE SetText(r2, "")
    ELSE r0

\* a summary node that handles the reply before looking for an interrupt
order_summary_node_unguarded(r0, e) == summary_reply(r0, e)

\* order_flow.order_summary_node: the interrupt check, then the reply
order_summary_node(r0, e) ==
    LET ci == check_interrupt(r0) IN
    IF ci.hit # NoneV THEN ci.r ELSE summary_reply(r0, e)

\* a post-confirmation node whose reset for another quote also empties the
\* history
order_post_confirmation_node_drops_history(r) ==
    IF ~Ctx(r, "post_order_question_shown") THEN
      SetText(SetCtx(r, "post_order_question_shown", TRUE), "")
    ELSE IF Text(r) # "" THEN
      LET txt == Strip(Text(r)) IN
      IF HasAny({"order", "quote", "new", "another", "yes", "continue", "main"}, txt) THEN
        SetText(Say([r EXCEPT !.s.context_data = EmptyContext,
                              !.s.order = OrderDetails,
                              !.s.interrupted_from = NoneV,
                              !.s.classified_intent = NoneV,
                              !.s.conversation_history = <<>>,
                              !.s.current_state = "MAIN_MENU"], "main_menu_again"), "")
      ELSE IF HasAny({"end", "bye", "goodbye", "done", "finish", "no"}, txt) THEN
        SetText(Say(SetState(r, "END"), "post_confirmation_goodbye"), "")
      ELSE SetText(Say(r, "reprompt_post_confirmation"), "")
    ELSE SetText(r, "")

\* ---------------------------------------------------- post-confirmation node
\* (defined in order_flow.py; create_chatbot_graph adds no node for it)
order_post_confirmation_node(r) ==
    IF ~Ctx(r, "post_order_question_shown") THEN
      SetText(SetCtx(r, "post_order_question_shown", TRUE), "")
    ELSE IF Text(r) # "" THEN
      LET txt == Strip(Text(r)) IN
      IF HasAny({"order", "quote", "new", "another", "yes", "continue", "main"}, txt) THEN
        SetText(Say([r EXCEPT !.s.context_data = EmptyContext,
                              !.s.order = OrderDetails,
                              !.s.interrupted_from = NoneV,
                              !.s.classified_intent = NoneV,
                              !.s.current_state = "MAIN_MENU"], "main_menu_again"), "")
      ELSE IF HasAny({"end", "bye", "goodbye", "done", "finish", "no"}, txt) THEN
        SetText(Say(SetState(r, "END"), "post_confirmation_goodbye"), "")
      ELSE SetText(Say(r, "reprompt_post_confirmation"), "")
    ELSE SetText(r, "")

route_from_post_confirmation(r) ==
    IF r.s.current_state = "MAIN_MENU" THEN "main_menu"
    ELSE IF r.s.current_state = "END" THEN "end_conversation"
    ELSE "end"

\* a scan entry that pauses whenever no reply is pending, asked or not
StepRoute_pause_unasked(r, shownKey, node) ==
    IF Text(r) # "" THEN node ELSE "end"

\* ------------------------------------------------------------ order router
\* one linear-scan entry of route_order_flow: the node when its prompt is not
\* shown yet or a reply is pending, "end" (pause) otherwise
StepRoute(r, shownKey, node) ==
    IF Ctx(r, shownKey) /\ Text(r) # "" THEN node
    ELSE IF ~Ctx(r, shownKey) THEN node
    ELSE "end"

step_map ==
    [ORDER_CONTACT_FIRST_NAME |-> "order_contact_first_name",
     ORDER_CONTACT_LAST_NAME |-> "order_contact_last_name",
     ORDER_CONTACT_EMAIL |-> "order_contact_email",
     ORDER_CONTACT_PHONE |-> "order_contact_phone",
     ORDER_ORGANIZATION |-> "order_organization",
     ORDER_TYPE |-> "order_type",
     ORDER_BUDGET |-> "order_budget",
     ORDER_SERVICE |-> "order_service",
     ORDER_APPAREL |-> "order_apparel",
     ORDER_PRODUCT |-> "order_product",
     ORDER_LOGO |-> "order_logo",
     ORDER_DECORATION_LOCATION |-> "order_decoration_location",
     ORDER_DECORATION_COLORS |-> "order_decoration_colors",
     ORDER_QUANTITY |-> "order_quantity",
     ORDER_SIZES |-> "order_sizes",
     ORDER_DELIVERY |-> "order_delivery"]

\* a router branch that returns the route and leaves the state label as it was
RouteAt_stale(r, st, route) == [route |-> route, r |-> r]

\* route_order_flow, one branch of the scan: state.current_state = st, then
\* return the route
RouteAt(r, st, route) == [route |-> route, r |-> SetState(r, st)]

\* the linear scan of route_order_flow (after the interrupt and resume checks)
LinearScan(r) ==
    LET at(st, route) == RouteAt(r, st, route) IN
    IF ~Ctx(r, "contact_first_name_complete") THEN
      at("ORDER_CONTACT_FIRST_NAME",
         StepRoute(r, "contact_first_name_shown", "order_contact_first_name"))
    ELSE IF ~Ctx(r, "contact_last_name_complete") THEN
      at("ORDER_CONTACT_LAST_NAME",
         StepRoute(r, "contact_last_name_shown", "order_contact_last_name"))
    ELSE IF ~Ctx(r, "contact_email_complete") THEN
      at("ORDER_CONTACT_EMAIL", StepRoute(r, "contact_email_shown", "order_contact_email"))
    ELSE IF ~Ctx(r, "contact_phone_complete") THEN
      at("ORDER_CONTACT_PHONE", StepRoute(r, "contact_phone_shown", "order_contact_phone"))
    ELSE IF ~Ctx(r, "org_complete") THEN
      at("ORDER_ORGANIZATION",
         IF Ctx(r, "org_type_shown") /\ Ctx(r, "org_name_shown") /\ Text(r) # ""
         THEN "order_organization"
         ELSE IF Ctx(r, "org_type_shown") /\ ~Ctx(r, "org_name_shown") /\ Text(r) # ""
         THEN "order_organization"
         ELSE IF ~Ctx(r, "org_type_shown") THEN "order_organization" ELSE "end")
    ELSE IF ~Ctx(r, "type_complete") THEN
      at("ORDER_TYPE", StepRoute(r, "type_question_shown", "order_type"))
    ELSE IF ~Ctx(r, "budget_complete") THEN
      at("ORDER_BUDGET", StepRoute(r, "budget_question_shown", "order_budget"))
    ELSE IF ~Ctx(r, "service_complete") THEN
      at("ORDER_SERVICE", StepRoute(r, "service_question_shown", "order_service"))
    ELSE IF ~Ctx(r, "apparel_complete") THEN
      at("ORDER_APPAREL", StepRoute(r, "apparel_question_shown", "order_apparel"))
    ELSE IF ~Ctx(r, "product_complete") THEN
      at("ORDER_PRODUCT", StepRoute(r, "product_question_shown", "order_product"))
    ELSE IF ~Ctx(r, "logo_complete") THEN
      at("ORDER_LOGO", StepRoute(r, "logo_question_shown", "order_logo"))
    ELSE IF ~Ctx(r, "decoration_location_complete") THEN
      at("ORDER_DECORATION_LOCATION",
         StepRoute(r, "decoration_location_shown", "order_decoration_location"))
    ELSE IF ~Ctx(r, "decoration_colors_complete") THEN
      at("ORDER_DECORATION_COLORS",
         StepRoute(r, "decoration_colors_shown", "order_decoration_colors"))
    ELSE IF ~Ctx(r, "qty_complete") THEN
      at("ORDER_QUANTITY", StepRoute(r, "qty_question_shown", "order_quantity"))
    ELSE IF ~Ctx(r, "sizes_complete") THEN
      LET r1 == SetState(r, "ORDER_SIZES") IN
      IF Ctx(r1, "sizes_pending") /\ Text(r1) # "" THEN
        IF Has("use sizes total", Strip(Text(r1))) THEN
          \* the pending sizes become the order's sizes (no code sets sizes_pending)
          LET r2 == [r1 EXCEPT !.s.context_data["sizes_pending"] = FALSE,
                               !.s.order.sizes = <<>>,
                               !.s.context_data["sizes_complete"] = TRUE]
          IN [route |-> StepRoute(r2, "sizes_question_shown", "order_sizes"), r |-> r2]
        ELSE [route |-> "order_sizes", r |-> r1]
      ELSE [route |-> StepRoute(r1, "sizes_question_shown", "order_sizes"), r |-> r1]
    ELSE IF ~Ctx(r, "delivery_complete") THEN
      IF Ctx(r, "awaiting_address") THEN
        at("ORDER_DELIVERY_ADDRESS",
           StepRoute(r, "address_question_shown", "order_delivery_address"))
      ELSE at("ORDER_DELIVERY", StepRoute(r, "delivery_question_shown", "order_delivery"))
    ELSE at("ORDER_SUMMARY", "order_summary")

\* a router that goes to the scan without looking at order_interrupted
route_order_flow_scans(r) == LinearScan(r)

\* order_flow.route_order_flow: the route and the session as the router leaves it
route_order_flow(r) ==
    LET current == r.s.current_state IN
    IF Ctx(r, "order_interrupted") /\ current = "HAS_QUESTIONS_ABOUT_PRODUCT"
    THEN [route |-> "end", r |-> r]
    ELSE IF Ctx(r, "order_interrupted") /\ current = "WANTS_HUMAN"
    THEN [route |-> "wants_human", r |-> r]
    ELSE IF Ctx(r, "order_interrupted") /\ current = "END"
    THEN [route |-> "end_conversation", r |-> r]
    ELSE IF Ctx(r, "just_resumed_from_interrupt") THEN
      LET r1 == SetCtx(r, "just_resumed_from_interrupt", FALSE) IN
      IF current \in DOMAIN step_map
      THEN [route |-> step_map[current], r |-> r1]
      ELSE LinearScan(r1)
    ELSE LinearScan(r)

\* ------------------------------------------------------------- side flows
\* flows/welcome.welcome_node
welcome_node(r) == SetState(Say(r, "greeting"), "MAIN_MENU")

\* services/intent_classifier.IntentClassifier.classify_intent: every failure
\* is caught inside and answered with "No match"
classify_intent(e) == IF e.classifier_ok THEN e.intent ELSE "No match"

\* flows/main_menu._keyword_fallback
keyword_fallback(t) ==
    IF HasAny({"product", "price", "pricing", "cost", "shirt", "hoodie", "embroidery",
               "screen print", "minimum", "delivery", "turnaround", "rush", "payment",
               "design", "logo", "dtf", "transfer", "ink", "color", "size"}, t)
    THEN "Has Questions about Product"
    ELSE IF HasAny({"order", "quote", "place order", "get a quote"}, t) THEN "Place order"
    ELSE IF HasAny({"human", "agent", "representative", "call"}, t) THEN "Wants Human"
    ELSE IF HasAny({"end", "cancel", "stop", "goodbye", "bye"}, t) THEN "End conversation"
    ELSE NoneV

\* flows/main_menu.main_menu_node; e.bad_confidence: the classifier's JSON
\* carries a confidence that float() rejects, the one way the try block raises
main_menu_node(r, e) ==
    IF ~Ctx(r, "main_menu_prompted") THEN
      SetText(SetCtx(Say(r, "greeting"), "main_menu_prompted", TRUE), "")
    ELSE IF Text(r) # "" THEN
      LET intent == IF e.classifier_ok /\ e.bad_confidence
                    THEN (IF keyword_fallback(Text(r)) = NoneV THEN "No match"
                          ELSE keyword_fallback(Text(r)))
                    ELSE classify_intent(e)
          r1 == [r EXCEPT !.s.classified_intent = intent]
      IN
      IF intent = "Has Questions about Product" THEN
        SetText(Say(SetState(r1, "HAS_QUESTIONS_ABOUT_PRODUCT"), "menu_to_product_questions"), "")
      ELSE IF intent = "Place order" THEN
        SetText(Say(SetState(r1, "ORDER_CONTACT"), "menu_to_order"), "")
      ELSE IF intent = "Wants Human" THEN
        SetText(Say(SetState(r1, "WANTS_HUMAN"), "menu_to_human"), "")
      ELSE IF intent = "End conversation" THEN
        SetText(Say(SetState(r1, "END"), "menu_to_end"), "")
      ELSE SetText(SetState(Say(r1, "menu_hint"), "MAIN_MENU"), "")
    ELSE SetText(SetState(r, "MAIN_MENU"), "")

route_from_main_menu(r) ==
    IF r.s.current_state = "ORDER_CONTACT" THEN "order_contact"
    ELSE IF r.s.current_state = "HAS_QUESTIONS_ABOUT_PRODUCT" THEN "product_questions"
    ELSE IF r.s.current_state = "WANTS_HUMAN" THEN "wants_human"
    ELSE IF r.s.current_state = "END" THEN "end_conversation"
    ELSE "end"

\* flows/product_questions._reset_question_flag_for_state: the key set to False
\* for a conversation state (the ORDER_ORGANIZATION entry is a tuple of two
\* names, used as one key; the ORDER_TYPE entry sits inside a comment)
ProductFlagMap(st) ==
    CASE st = "ORDER_CONTACT_FIRST_NAME" -> "contact_first_name_shown"
      [] st = "ORDER_CONTACT_LAST_NAME" -> "contact_last_name_shown"
      [] st = "ORDER_CONTACT_EMAIL" -> "contact_email_shown"
      [] st = "ORDER_CONTACT_PHONE" -> "contact_phone_shown"
      [] st = "ORDER_ORGANIZATION" -> "org_type_shown,org_name_shown"
      [] st = "ORDER_BUDGET" -> "budget_question_shown"
      [] st = "ORDER_SERVICE" -> "service_question_shown"
      [] st = "ORDER_APPAREL" -> "apparel_question_shown"
      [] st = "ORDER_PRODUCT" -> "product_question_shown"
      [] st = "ORDER_LOGO" -> "logo_question_shown"
      [] st = "ORDER_DECORATION_LOCATION" -> "decoration_location_shown"
      [] st = "ORDER_DECORATION_COLORS" -> "decoration_colors_shown"
      [] st = "ORDER_QUANTITY" -> "qty_question_shown"
      [] st = "ORDER_SIZES" -> "sizes_question_shown"
      [] st = "ORDER_DELIVERY" -> "delivery_question_shown"
      [] OTHER -> NoneV

\* a flag reset that also reopens the first-name step
reset_question_flag_for_state_reopens(r, conv_state) ==
    SetCtx(IF ProductFlagMap(conv_state) # NoneV
           THEN SetCtx(r, ProductFlagMap(conv_state), FALSE) ELSE r,
           "contact_first_name_complete", FALSE)

reset_question_flag_for_state(r, conv_state) ==
    IF ProductFlagMap(conv_state) # NoneV
    THEN SetCtx(r, ProductFlagMap(conv_state), FALSE) ELSE r

\* product_questions_node with a retrieval failure that leaves the question
\* pending
product_questions_node_keeps_question(r, e) ==
    IF ~Ctx(r, "product_question_prompted") THEN
      SetText(SetCtx(IF Ctx(r, "order_interrupted") THEN r ELSE Say(r, "product_help"),
                     "product_question_prompted", TRUE), "")
    ELSE IF Text(r) # "" THEN
      LET user_question == Strip(Text(r)) IN
      IF HasAny({"done", "finished", "back", "menu", "main menu"}, user_question) THEN
        IF Ctx(r, "order_interrupted") THEN
          SetText(SetCtx(Say(r, "offer_resume_or_menu"), "awaiting_resume_decision", TRUE), "")
        ELSE
          SetText(SetCtx(SetState(Say(r, "back_to_menu"), "MAIN_MENU"),
                         "product_question_prompted", FALSE), "")
      ELSE IF Ctx(r, "awaiting_resume_decision")
              /\ (Has("continue", user_question) \/ Has("order", user_question)) THEN
        LET resume_state == IF r.s.interrupted_from # NoneV
                            THEN r.s.interrupted_from ELSE "ORDER_CONTACT"
            r1 == reset_question_flag_for_state(r, resume_state)
        IN [r1 EXCEPT !.s.context_data["order_interrupted"] = FALSE,
                      !.s.context_data["awaiting_resume_decision"] = FALSE,
                      !.s.context_data["product_question_prompted"] = FALSE,
                      !.s.current_state = resume_state,
                      !.s.interrupted_from = NoneV,
                      !.s.last_user_message = "__RESUME__"]
      ELSE IF Ctx(r, "awaiting_resume_decision")
              /\ (Has("main", user_question) \/ Has("menu", user_question)) THEN
        SetText(Say([r EXCEPT !.s.context_data["order_interrupted"] = FALSE,
                              !.s.context_data["awaiting_resume_decision"] = FALSE,
                              !.s.context_data["product_question_prompted"] = FALSE,
                              !.s.interrupted_from = NoneV,
                              !.s.current_state = "MAIN_MENU"], "resume_declined_menu"), "")
      ELSE IF ~e.rag_ok THEN Say([r EXCEPT !.rags = @ + 1], "rag_unavailable")
      ELSE
        SetText(Say([r EXCEPT !.rags = @ + 1],
                    IF Ctx(r, "order_interrupted") THEN "answer_then_order_hint"
                    ELSE "answer_then_menu_hint"), "")
    ELSE SetText(r, "")

\* flows/product_questions.product_questions_node; e.rag_ok: retrieve_answer
\* returns (TRUE) or raises (FALSE)
product_questions_node(r, e) ==
    IF ~Ctx(r, "product_question_prompted") THEN
      SetText(SetCtx(IF Ctx(r, "order_interrupted") THEN r ELSE Say(r, "product_help"),
                     "product_question_prompted", TRUE), "")
    ELSE IF Text(r) # "" THEN
      LET user_question == Strip(Text(r)) IN
      IF HasAny({"done", "finished", "back", "menu", "main menu"}, user_question) THEN
        IF Ctx(r, "order_interrupted") THEN
          SetText(SetCtx(Say(r, "offer_resume_or_menu"), "awaiting_resume_decision", TRUE), "")
        ELSE
          SetText(SetCtx(SetState(Say(r, "back_to_menu"), "MAIN_MENU"),
                         "product_question_prompted", FALSE), "")
      ELSE IF Ctx(r, "awaiting_resume_decision")
              /\ (Has("continue", user_question) \/ Has("order", user_question)) THEN
        LET resume_state == IF r.s.interrupted_from # NoneV
                            THEN r.s.interrupted_from ELSE "ORDER_CONTACT"
            r1 == reset_question_flag_for_state(r, resume_state)
        IN [r1 EXCEPT !.s.context_data["order_interrupted"] = FALSE,
                      !.s.context_data["awaiting_resume_decision"] = FALSE,
                      !.s.context_data["product_question_prompted"] = FALSE,
                      !.s.current_state = resume_state,
                      !.s.interrupted_from = NoneV,
                      !.s.last_user_message = "__RESUME__"]
      ELSE IF Ctx(r, "awaiting_resume_decision")
              /\ (Has("main", user_question) \/ Has("menu", user_question)) THEN
        SetText(Say([r EXCEPT !.s.context_data["order_interrupted"] = FALSE,
                              !.s.context_data["awaiting_resume_decision"] = FALSE,
                              !.s.context_data["product_question_prompted"] = FALSE,
                              !.s.interrupted_from = NoneV,
                              !.s.current_state = "MAIN_MENU"], "resume_declined_menu"), "")
      ELSE
        SetText(Say([r EXCEPT !.rags = @ + 1],
                    IF ~e.rag_ok THEN "rag_unavailable"
                    ELSE IF Ctx(r, "order_interrupted") THEN "answer_then_order_hint"
                    ELSE "answer_then_menu_hint"), "")
    ELSE SetText(r, "")

route_from_product_questions(r) ==
    IF r.s.current_state = "MAIN_MENU" THEN "main_menu"
    ELSE IF r.s.current_state # "HAS_QUESTIONS_ABOUT_PRODUCT" THEN "order_router"
    ELSE "end"

\* the flag_map of wants_human_node
HumanFlagMap(st) ==
    CASE st = "ORDER_CONTACT" -> "contact_question_shown"
      [] st = "ORDER_ORGANIZATION" -> "org_question_shown"
      [] st = "ORDER_TYPE" -> "type_question_shown"
      [] st = "ORDER_BUDGET" -> "budget_question_shown"
      [] st = "ORDER_SERVICE" -> "service_question_shown"
      [] st = "ORDER_APPAREL" -> "apparel_question_shown"
      [] st = "ORDER_PRODUCT" -> "product_question_shown"
      [] st = "ORDER_LOGO" -> "logo_question_shown"
      [] st = "ORDER_DECORATION_LOCATION" -> "decoration_location_shown"
      [] st = "ORDER_DECORATION_COLORS" -> "decoration_colors_shown"
      [] st = "ORDER_QUANTITY" -> "qty_question_shown"
      [] st = "ORDER_SIZES" -> "sizes_question_shown"
      [] st = "ORDER_DELIVERY" -> "delivery_question_shown"
      [] OTHER -> NoneV

\* flows/wants_human.wants_human_node
wants_human_node(r) ==
    IF ~Ctx(r, "human_contact_shown") THEN
      SetText(SetCtx(Say(r, IF Ctx(r, "order_interrupted")
                            THEN "human_contact_continue_order_or_end"
                            ELSE "human_contact_continue_chat_or_end"),
                     "human_contact_shown", TRUE), "")
    ELSE IF Text(r) # "" THEN
      LET txt == Strip(Text(r))
          ends == HasAny({"end", "bye", "goodbye", "done", "finish", "no"}, txt)
      IN
      IF Ctx(r, "order_interrupted") THEN
        IF HasAny({"continue", "order", "resume", "yes", "left", "off"}, txt) THEN
          LET resume_state == IF r.s.interrupted_from # NoneV
                              THEN r.s.interrupted_from ELSE "ORDER_CONTACT"
              r1 == IF HumanFlagMap(resume_state) # NoneV
                    THEN SetCtx(r, HumanFlagMap(resume_state), FALSE) ELSE r
          IN [r1 EXCEPT !.s.context_data["order_interrupted"] = FALSE,
                        !.s.interrupted_from = NoneV,
                        !.s.current_state = resume_state,
                        !.s.last_user_message = "__RESUME__"]
        ELSE IF ends THEN SetText(Say(SetState(r, "END"), "human_goodbye"), "")
        ELSE SetText(Say(r, "reprompt_continue_order_or_end"), "")
      ELSE
        IF HasAny({"continue", "chat", "question", "order", "main", "yes"}, txt) THEN
          SetText(SetCtx(Say([r EXCEPT !.s.current_state = "MAIN_MENU",
                                       !.s.context_data = EmptyContext],
                             "human_back_to_menu"), "main_menu_prompted", TRUE), "")
        ELSE IF ends THEN SetText(Say(SetState(r, "END"), "human_goodbye"), "")
        ELSE SetText(Say(r, "reprompt_continue_chat_or_end"), "")
    ELSE SetText(r, "")

route_from_wants_human(r) ==
    IF r.s.current_state = "MAIN_MENU" THEN "main_menu"
    ELSE IF r.s.current_state = "END" THEN "end_conversation"
    ELSE IF r.s.current_state # "WANTS_HUMAN" THEN "order_router"
    ELSE IF Ctx(r, "human_contact_shown") /\ Text(r) = "" THEN "end"
    ELSE "wants_human"

\* flows/end_conversation.end_node
end_node(r) ==
    IF Ctx(r, "order_complete_awaiting_next") THEN SetState(r, "END")
    ELSE IF Ctx(r, "human_contact_shown") THEN SetState(r, "END")
    ELSE SetState(Say(r, "end_message"), "END")

\* ------------------------------------------------------------------- graph
\* main._is_order_state
is_order_state(st) == Len(st) >= 6 /\ SubSeq(st, 1, 6) = "ORDER_"

\* main.route_from_resume
route_from_resume(r) ==
    LET cs == r.s.current_state IN
    IF cs = "WELCOME" THEN (IF Text(r) # "" THEN "main_menu" ELSE "welcome")
    ELSE IF is_order_state(cs) THEN "order_router"
    ELSE IF cs = "MAIN_MENU" THEN "main_menu"
    ELSE IF cs = "HAS_QUESTIONS_ABOUT_PRODUCT" THEN "product_questions"
    ELSE IF cs = "WANTS_HUMAN" THEN "wants_human"
    ELSE IF cs = "END" THEN
      IF Text(r) # "" /\ HasAny({"order", "quote", "restart", "start", "begin"}, Text(r))
      THEN (IF Ctx(r, "order_interrupted") /\ r.s.interrupted_from # NoneV
            THEN "order_router" ELSE "main_menu")
      ELSE "end_conversation"
    ELSE "main_menu"

OrderStepNodes ==
    {"order_contact_first_name", "order_contact_last_name", "order_contact_email",
     "order_contact_phone", "order_organization", "order_type", "order_budget",
     "order_service", "order_apparel", "order_product", "order_logo",
     "order_decoration_location", "order_decoration_colors", "order_quantity",
     "order_sizes", "order_delivery", "order_delivery_address"}

GraphEnd == "__end__"

\* create_chatbot_graph: the path map of each conditional edge (route name to
\* node); a route name outside the map has no edge
path_map(node) ==
    CASE node = "resume" ->
           [welcome |-> "welcome", main_menu |-> "main_menu",
            product_questions |-> "product_questions", wants_human |-> "wants_human",
            end_conversation |-> "end_conversation", order_router |-> "order_router"]
      [] node = "main_menu" ->
           [product_questions |-> "product_questions", wants_human |-> "wants_human",
            end_conversation |-> "end_conversation", order_contact |-> "order_router",
            end |-> GraphEnd]
      [] node = "product_questions" ->
           [main_menu |-> "main_menu", order_router |-> "order_router", end |-> GraphEnd]
      [] node = "wants_human" ->
           [wants_human |-> "wants_human", main_menu |-> "main_menu",
            end_conversation |-> "end_conversation"]
      [] node = "order_router" ->
           [n \in OrderStepNodes \cup {"order_summary", "wants_human", "end_conversation", "end"}
              |-> IF n = "end" THEN GraphEnd ELSE n]

\* the body of a node
run_node(node, r, e) ==
    CASE node = "resume" -> r
      [] node = "welcome" -> welcome_node(r)
      [] node = "main_menu" -> main_menu_node(r, e)
      [] node = "product_questions" -> product_questions_node(r, e)
      [] node = "wants_human" -> wants_human_node(r)
      [] node = "end_conversation" -> end_node(r)
      [] node = "order_router" -> r
      [] node = "order_contact_first_name" -> order_contact_first_name_node(r)
      [] node = "order_contact_last_name" -> order_contact_last_name_node(r)
      [] node = "order_contact_email" -> order_contact_email_node(r)
      [] node = "order_contact_phone" -> order_contact_phone_node(r)
      [] node = "order_organization" -> order_organization_node(r)
      [] node = "order_type" -> order_type_node(r)
      [] node = "order_budget" -> order_budget_node(r)
      [] node = "order_service" -> order_service_node(r)
      [] node = "order_apparel" -> order_apparel_node(r)
      [] node = "order_product" -> order_product_node(r)
      [] node = "order_logo" -> order_logo_node(r)
      [] node = "order_decoration_location" -> order_decoration_location_node(r)
      [] node = "order_decoration_colors" -> order_decoration_colors_node(r)
      [] node = "order_quantity" -> order_quantity_node(r)
      [] node = "order_sizes" -> order_sizes_node(r)
      [] node = "order_delivery" -> order_delivery_node(r)
      [] node = "order_delivery_address" -> order_delivery_address_node(r)
      [] node = "order_summary" -> order_summary_node(r, e)

\* the edge taken after a node: the next node (GraphEnd to stop), the session
\* as the routing function leaves it, and whether the route name had an edge
next_node(node, r) ==
    LET via(route, r1) ==
            IF route \in DOMAIN path_map(node)
            THEN [next |-> path_map(node)[route], r |-> r1, ok |-> TRUE]
            ELSE [next |-> GraphEnd, r |-> r1, ok |-> FALSE]
    IN
    CASE node = "resume" -> via(route_from_resume(r), r)
      [] node = "welcome" -> [next |-> "main_menu", r |-> r, ok |-> TRUE]
      [] node = "main_menu" -> via(route_from_main_menu(r), r)
      [] node = "product_questions" -> via(route_from_product_questions(r), r)
      [] node = "wants_human" -> via(route_from_wants_human(r), r)
      [] node = "order_router" -> via(route_order_flow(r).route, route_order_flow(r).r)
      [] node \in OrderStepNodes -> [next |-> "order_router", r |-> r, ok |-> TRUE]
      [] node \in {"order_summary", "end_conversation"} ->
           [next |-> GraphEnd, r |-> r, ok |-> TRUE]

\* app.ainvoke: run nodes from `node` until the graph ends; r.hops counts the
\* nodes executed, r.err names a routing error or the recursion limit
RECURSIVE invoke(_, _, _)
invoke(node, r, e) ==
    IF r.hops >= RecursionLimit THEN [r EXCEPT !.err = "GraphRecursionError"]
    ELSE
      LET r1 == [run_node(node, r, e) EXCEPT !.hops = r.hops + 1]
          nx == next_node(node, r1)
      IN
      IF ~nx.ok THEN [nx.r EXCEPT !.err = "KeyError"]
      ELSE IF nx.next = GraphEnd THEN nx.r
      ELSE invoke(nx.next, nx.r, e)

\* ------------------------------------------------------------ environment
\* what the user may type, by the state the stored session is in
InterruptTexts == {"pricing", "human", "stop", "pricing cancel", "human stop"}

Replies(s) ==
    LET st == s.current_state IN
    {""} \cup
    CASE st \in {"WELCOME", "MAIN_MENU"} -> {"hi", "i want a quote", "human"}
      [] st = "END" -> {"hi", "start again"}
      [] st = "HAS_QUESTIONS_ABOUT_PRODUCT" ->
           {"which inks do you use", "done", "continue order", "main", "main menu"}
      [] st = "WANTS_HUMAN" -> {"continue", "end"}
      [] st \in {"ORDER_CONTACT", "ORDER_CONTACT_FIRST_NAME"} -> InterruptTexts \cup {"alice", " "}
      [] st = "ORDER_CONTACT_LAST_NAME" -> InterruptTexts \cup {"smith"}
      [] st = "ORDER_CONTACT_EMAIL" -> InterruptTexts \cup {"alice@example.com", "alice"}
      [] st = "ORDER_CONTACT_PHONE" -> InterruptTexts \cup {"2065550100"}
      [] st = "ORDER_ORGANIZATION" ->
           InterruptTexts \cup (IF s.context_data["org_name_shown"] THEN {"acme"}
                                ELSE {"yes", "personal", "acme"})
      [] st = "ORDER_TYPE" -> InterruptTexts \cup {"3", "7"}
      [] st = "ORDER_BUDGET" -> InterruptTexts \cup {"value", "3"}
      [] st = "ORDER_SERVICE" -> InterruptTexts \cup {"1", "9"}
      [] st = "ORDER_APPAREL" ->
           InterruptTexts \cup {"1", "9"}
             \cup (IF s.order.is_business = "False" THEN {"1,black"} ELSE {})
      [] st = "ORDER_PRODUCT" -> InterruptTexts \cup {"black"}
      [] st = "ORDER_LOGO" -> InterruptTexts \cup {"skip"}
      [] st = "ORDER_DECORATION_LOCATION" -> InterruptTexts \cup {"1"}
      [] st = "ORDER_DECORATION_COLORS" -> InterruptTexts \cup {"2", "many"}
      [] st = "ORDER_QUANTITY" -> InterruptTexts \cup {"yes", "2", "lots"}
      [] st = "ORDER_SIZES" ->
           InterruptTexts \cup {"4", "some"}
             \cup (IF s.context_data["size_step"] = 0 THEN {"skip"} ELSE {})
      [] st = "ORDER_DELIVERY" -> InterruptTexts \cup {"deliver", "pickup", "maybe"}
      [] st = "ORDER_DELIVERY_ADDRESS" ->
           InterruptTexts \cup {"1 main st"}
             \cup (IF s.order.is_business = "True" THEN {" "} ELSE {})
      [] st \in {"ORDER_SUMMARY", "ORDER_POST_CONFIRMATION"} ->
           InterruptTexts \cup {"confirm", "no", "change color to navy"}
             \cup (IF st = "ORDER_POST_CONFIRMATION" THEN {"main menu"} ELSE {})

\* the change lists the change parser may return
ChangeLists ==
    {<<>>,
     <<[field |-> "color", new_value |-> "navy"]>>,
     <<[field |-> "color", new_value |-> "plaid"]>>,
     <<[field |-> "logo", new_value |-> "reset"]>>}

\* the classifier's answers at the main menu ("Greeting", "Yes" and "No" are
\* handled as "No match" is)
MenuIntents ==
    {"Has Questions about Product", "Place order", "End conversation", "Wants Human",
     "No match"}

DefaultEnv ==
    [intent |-> "No match", classifier_ok |-> TRUE, bad_confidence |-> FALSE,
     mail |-> "sent", rag_ok |-> TRUE, parse_ok |-> TRUE, changes |-> <<>>]

\* what the collaborators may answer during a turn, by the state the stored
\* session is in and the text sent (a collaborator the turn does not call
\* keeps its default)
Envs(s, user_message) ==
    LET st == s.current_state IN
    IF user_message = "" THEN {DefaultEnv}
    ELSE
    CASE st \in {"WELCOME", "MAIN_MENU", "END"} ->
           {[DefaultEnv EXCEPT !.classifier_ok = FALSE],
            [DefaultEnv EXCEPT !.bad_confidence = TRUE]}
             \cup (IF user_message = "hi"
                   THEN {[DefaultEnv EXCEPT !.intent = i] : i \in MenuIntents}
                   ELSE {})
      [] st = "HAS_QUESTIONS_ABOUT_PRODUCT" ->
           {[DefaultEnv EXCEPT !.rag_ok = g] : g \in BOOLEAN}
      [] st \in {"ORDER_SUMMARY", "ORDER_POST_CONFIRMATION"} ->
           IF user_message \in InterruptTexts THEN {DefaultEnv}
           ELSE {[DefaultEnv EXCEPT !.intent = "Yes", !.mail = m] : m \in MailOutcomes}
                  \cup (IF user_message = "change color to navy"
                        THEN {[DefaultEnv EXCEPT !.intent = "No"],
                              [DefaultEnv EXCEPT !.parse_ok = FALSE]}
                               \cup {[DefaultEnv EXCEPT !.changes = c] : c \in ChangeLists}
                        ELSE {DefaultEnv})
      [] OTHER -> {DefaultEnv}

\* ------------------------------------------------------------------- state
VARIABLES
    sessions,   \* SessionManager.sessions: session id -> SessionState
    turn,       \* the last chat call: its input, its result, what the pass did
    pending,    \* chat calls awaiting their routing pass: session id -> call
    uploaded,   \* the last upload_file call: its input, its response, its store
    parsed      \* a parse_sizes call: its text and, once it has run, its result

vars == <<sessions, turn, pending, uploaded, parsed>>

NoTurn ==
    [sid |-> NoneV, text |-> "", success |-> TRUE, response |-> NoneV,
     current_state |-> NoneV, conversation_ended |-> FALSE,
     out |-> <<>>, mails |-> <<>>, rags |-> 0, hops |-> 0, err |-> NoneV]

\* SessionManager.get_session: the store after the call
get_session(store, sid) ==
    IF sid \in DOMAIN store THEN store
    ELSE [i \in DOMAIN store \cup {sid} |-> IF i = sid THEN SessionState ELSE store[i]]

\* a store that keeps one record for all ids
update_session_shared(store, sid, s) ==
    [i \in DOMAIN store \cup {sid} |-> s]

\* a store in which the first record saved for an id stays
update_session_first_wins(store, sid, s) ==
    [i \in DOMAIN store \cup {sid} |->
        IF i = sid /\ sid \notin DOMAIN store THEN s
        ELSE IF i = sid THEN store[i] ELSE store[i]]

\* SessionManager.update_session
update_session(store, sid, s) ==
    [i \in DOMAIN store \cup {sid} |-> IF i = sid THEN s ELSE store[i]]

\* chat: replies[-1]["content"] if replies else "..."
LatestReply(h) ==
    IF \E i \in 1..Len(h) : h[i].role = "assistant"
    THEN h[CHOOSE i \in 1..Len(h) :
               h[i].role = "assistant" /\ \A j \in (i + 1)..Len(h) : h[j].role # "assistant"].content
    ELSE "..."

\* chat, lines 222-226: the stored record with the user's message appended
Received(s, user_message) ==
    IF user_message # ""
    THEN [add_message(NewRun(s), "user", user_message).s
             EXCEPT !.last_user_message = user_message]
    ELSE s

\* ScreenPrintingChatbot.chat, lines 240-260: the reply and the store once the
\* routing pass has returned (result.err = NoneV) or raised
ChatResult(sid, user_message, store, state, result) ==
    /\ turn' = [sid |-> sid, text |-> user_message,
                success |-> result.err = NoneV,
                response |-> IF result.err = NoneV
                             THEN LatestReply(result.s.conversation_history)
                             ELSE "technical_difficulties",
                current_state |-> IF result.err = NoneV THEN result.s.current_state ELSE NoneV,
                conversation_ended |-> result.err = NoneV /\ result.s.current_state = "END",
                out |-> result.out, mails |-> result.mails, rags |-> result.rags,
                hops |-> result.hops, err |-> result.err]
    /\ sessions' = IF result.err = NoneV
                   THEN update_session(store, sid, result.s)
                   ELSE store

\* ScreenPrintingChatbot.chat: state is the record get_session returned, which
\* is the stored object itself, so what lines 224-226 do to it is in the store
\* whether or not the pass succeeds
Chat(sid, user_message, e) ==
    \E store \in {update_session(get_session(sessions, sid), sid,
                                 Received(get_session(sessions, sid)[sid], user_message))} :
      \E result \in {invoke("resume", NewRun(store[sid]), e)} :
        /\ ChatResult(sid, user_message, store, store[sid], result)
        /\ UNCHANGED <<pending, uploaded, parsed>>

\* no upload_file call has been made
NoUpload == [sid |-> NoneV, outcome |-> NoneV, success |-> TRUE, error |-> NoneV, store |-> <<>>]

\* what an upload_file call can meet: a file name whose extension is not
\* allowed, an import at the top of the handler that raises, an upload that
\* succeeds, an upload (or the temporary file) that raises
UploadOutcomes == {"bad_extension", "import_raises", "uploaded", "upload_raises"}

\* api.upload_file: the response and the SessionManager the handler creates
\* (line 289), as the call leaves it.  With "import_raises" the except branch
\* reads names bound further down and raises itself.
upload_file(sid, outcome) ==
    IF outcome = "bad_extension" THEN
      [sid |-> sid, outcome |-> outcome, success |-> FALSE,
       error |-> "file_type_not_allowed", store |-> <<>>]
    ELSE IF outcome = "import_raises" THEN
      [sid |-> sid, outcome |-> outcome, success |-> FALSE,
       error |-> "UnboundLocalError", store |-> <<>>]
    ELSE
      LET session_manager == get_session(<<>>, sid)
          state == Say(NewRun(session_manager[sid]), "select_logo_file")
          store1 == update_session(session_manager, sid, state.s)
      IN
      IF outcome = "uploaded" THEN
        LET done == Say([state EXCEPT !.s.context_data["logo_file_id"] = "file_id",
                                      !.s.context_data["logo_view_link"] = "view_link",
                                      !.s.context_data["logo_complete"] = TRUE,
                                      !.s.current_state = "ORDER_LOGO"], "logo uploaded")
        IN [sid |-> sid, outcome |-> outcome, success |-> TRUE, error |-> NoneV,
            store |-> update_session(store1, sid, done.s)]
      ELSE
        [sid |-> sid, outcome |-> outcome, success |-> FALSE, error |-> "upload_failed",
         store |-> update_session(store1, sid, Say(state, "upload_failed").s)]

\* POST /api/upload/{session_id}
Upload(sid, outcome) ==
    /\ uploaded' = upload_file(sid, outcome)
    /\ UNCHANGED <<sessions, turn, pending, parsed>>

\* no parse_sizes call is under way
NoParse ==
    [mentions |-> <<>>, text |-> "", done |-> FALSE,
     result |-> [err |-> NoneV, sizes |-> <<>>]]

Init ==
    /\ sessions = <<>>
    /\ turn = NoTurn
    /\ pending = <<>>
    /\ uploaded = NoUpload
    /\ parsed = NoParse

Next ==
    \E sid \in SessionIds :
      \E user_message \in Replies(get_session(sessions, sid)[sid]) :
        \E e \in Envs(get_session(sessions, sid)[sid], user_message) :
          Chat(sid, user_message, e)

Spec == Init /\ [][Next]_vars

\* ------------------------------------------------- two sessions, interleaved
\* chat is a coroutine: between lines 222-226 (fetch the record, append the
\* message) and line 241 (save the result) it awaits the routing pass, and
\* calls for other sessions run meanwhile.
IsoIds == {"s1", "s2"}

\* what the two users type: a short conversation reaching the order flow and
\* a product question from it
IsoReplies(s) ==
    CASE s.current_state \in {"WELCOME", "MAIN_MENU"} -> {"", "i want a quote"}
      [] s.current_state \in {"ORDER_CONTACT", "ORDER_CONTACT_FIRST_NAME"} ->
           {"alice", "pricing"}
      [] s.current_state = "ORDER_CONTACT_LAST_NAME" -> {"smith"}
      [] s.current_state = "HAS_QUESTIONS_ABOUT_PRODUCT" -> {"done", "continue order"}
      [] OTHER -> {}

\* chat, lines 222-226: the call fetches (or creates) the record, appends the
\* user message to it and starts the routing pass on it
ChatBegin(sid, user_message) ==
    /\ sid \notin DOMAIN pending
    /\ sessions' = update_session(get_session(sessions, sid), sid,
                                  Received(get_session(sessions, sid)[sid], user_message))
    /\ pending' = [i \in DOMAIN pending \cup {sid} |->
                     IF i = sid
                     THEN [text |-> user_message,
                           state |-> Received(get_session(sessions, sid)[sid], user_message)]
                     ELSE pending[i]]
    /\ UNCHANGED <<turn, uploaded, parsed>>

\* chat, lines 228-260: the routing pass on the record the call holds returns
\* or raises, and the result is saved and reported
ChatEnd(sid, e) ==
    /\ sid \in DOMAIN pending
    /\ \E result \in {invoke("resume", NewRun(pending[sid].state), e)} :
         ChatResult(sid, pending[sid].text, sessions, pending[sid].state, result)
    /\ pending' = [i \in DOMAIN pending \ {sid} |-> pending[i]]
    /\ UNCHANGED <<uploaded, parsed>>

NextIso ==
    \E sid \in IsoIds :
      \/ \E user_message \in IsoReplies(get_session(sessions, sid)[sid]) :
           ChatBegin(sid, user_message)
      \/ /\ sid \in DOMAIN pending
         /\ \E e \in Envs(pending[sid].state, pending[sid].text) : ChatEnd(sid, e)

SpecIso == Init /\ [][NextIso]_vars

\* ------------------------------------------------ chat and upload endpoints
\* the conversation up to the decoration step, without interrupts
UploadReplies(s) ==
    IF s.current_state \in {"WELCOME", "MAIN_MENU", "ORDER_CONTACT", "ORDER_CONTACT_FIRST_NAME",
                            "ORDER_CONTACT_LAST_NAME", "ORDER_CONTACT_EMAIL",
                            "ORDER_CONTACT_PHONE", "ORDER_ORGANIZATION", "ORDER_TYPE",
                            "ORDER_BUDGET", "ORDER_SERVICE", "ORDER_APPAREL",
                            "ORDER_PRODUCT", "ORDER_LOGO"}
    THEN Replies(s) \ (InterruptTexts \cup {"human"})
    ELSE {""}

NextUpload ==
    \E sid \in SessionIds :
      \/ \E user_message \in UploadReplies(get_session(sessions, sid)[sid]) :
           \E e \in Envs(get_session(sessions, sid)[sid], user_message) :
             Chat(sid, user_message, e)
      \/ \E outcome \in UploadOutcomes : Upload(sid, outcome)

SpecUpload == Init /\ [][NextUpload]_vars

\* ------------------------------------------- an upload during a chat turn
\* upload_file is a coroutine of the same event loop: it runs while a chat
\* call for the same session awaits its routing pass
NextRace ==
    \E sid \in SessionIds :
      \/ \E user_message \in UploadReplies(get_session(sessions, sid)[sid]) :
           ChatBegin(sid, user_message)
      \/ /\ sid \in DOMAIN pending
         /\ \E outcome \in UploadOutcomes : Upload(sid, outcome)
      \/ /\ sid \in DOMAIN pending
         /\ \E e \in Envs(pending[sid].state, pending[sid].text) : ChatEnd(sid, e)

SpecRace == Init /\ [][NextRace]_vars

\* ------------------------------------------------------ the size parser run
\* size mentions: a label of the alias table, a quantity, and the form the
\* mention is written in
MentionLabels == {"S", "M", "small", "XL", "2XL"}
MentionQtys == {"10", "5"}
MentionForms == {"colon", "plain", "times"}
MaxMentions == 2

Mentions == [label : MentionLabels, qty : MentionQtys, form : MentionForms]

\* the "LABEL:QTY" mentions of "S:10, M:15, L:5, XL:2"
ColonExample ==
    <<[label |-> "S", qty |-> "10", form |-> "colon"],
      [label |-> "M", qty |-> "15", form |-> "colon"],
      [label |-> "L", qty |-> "5", form |-> "colon"],
      [label |-> "XL", qty |-> "2", form |-> "colon"]>>

MentionLists ==
    {ColonExample} \cup UNION {[1..n -> Mentions] : n \in 1..MaxMentions}

\* a mention as it is typed
MentionText(m) ==
    CASE m.form = "colon" -> m.label \o ":" \o m.qty
      [] m.form = "plain" -> m.qty \o " " \o m.label
      [] m.form = "times" -> m.qty \o " x " \o m.label

RECURSIVE SizesText(_)
SizesText(ms) ==
    IF ms = <<>> THEN ""
    ELSE MentionText(ms[1]) \o (IF Len(ms) > 1 THEN ", " ELSE "") \o SizesText(Tail(ms))

\* a text of size mentions is handed to parse_sizes
InitSizes ==
    /\ sessions = <<>>
    /\ turn = NoTurn
    /\ pending = <<>>
    /\ uploaded = NoUpload
    /\ \E ms \in MentionLists :
          parsed = [NoParse EXCEPT !.mentions = ms, !.text = SizesText(ms)]

\* parse_sizes(text) runs
ParseSizes ==
    /\ ~parsed.done
    /\ parsed' = [parsed EXCEPT !.done = TRUE, !.result = parse_sizes(parsed.text)]
    /\ UNCHANGED <<sessions, turn, pending, uploaded>>

NextSizes == ParseSizes

SpecSizes == InitSizes /\ [][NextSizes]_vars

\* -------------------------------------------------------------- properties
\* The session a turn on sid starts from (what get_session hands to chat).
Before(sid) == get_session(sessions, sid)[sid]

OrderStates ==
    {"ORDER_CONTACT", "ORDER_CONTACT_FIRST_NAME", "ORDER_CONTACT_LAST_NAME", "ORDER_CONTACT_EMAIL",
     "ORDER_CONTACT_PHONE", "ORDER_ORGANIZATION", "ORDER_TYPE", "ORDER_BUDGET",
     "ORDER_SERVICE", "ORDER_APPAREL", "ORDER_PRODUCT", "ORDER_LOGO",
     "ORDER_DECORATION_LOCATION", "ORDER_DECORATION_COLORS", "ORDER_QUANTITY",
     "ORDER_SIZES", "ORDER_DELIVERY", "ORDER_DELIVERY_ADDRESS", "ORDER_SUMMARY",
     "ORDER_POST_CONFIRMATION"}

CompleteFlags ==
    {"contact_first_name_complete", "contact_last_name_complete",
     "contact_email_complete", "contact_phone_complete", "contact_complete",
     "org_complete", "type_complete", "budget_complete", "service_complete",
     "apparel_complete", "product_complete", "logo_complete",
     "decoration_location_complete", "decoration_colors_complete", "qty_complete",
     "sizes_complete", "delivery_complete", "order_complete", "order_confirmed"}

SameComplete(a, b) == \A k \in CompleteFlags : a.context_data[k] = b.context_data[k]

InSeq(x, q) == \E i \in 1..Len(q) : q[i] = x

\* the first-name prompt is shown and unanswered
FirstNameOpen(s) ==
    /\ s.current_state = "ORDER_CONTACT_FIRST_NAME"
    /\ s.context_data["contact_first_name_shown"]
    /\ ~s.context_data["contact_first_name_complete"]
    /\ ~s.context_data["order_interrupted"]

\* product Q&A entered by an interrupt at the first-name step
QAFromFirstName(s) ==
    /\ s.current_state = "HAS_QUESTIONS_ABOUT_PRODUCT"
    /\ s.context_data["order_interrupted"]
    /\ s.interrupted_from = "ORDER_CONTACT_FIRST_NAME"
    /\ ~s.context_data["contact_first_name_complete"]

C1_Step(sid) ==
    LET pre == Before(sid)
        post == sessions'[sid]
    IN
    /\ (FirstNameOpen(pre) /\ HasAny(ProductWords, turn'.text)) =>
          /\ turn'.success
          /\ post.current_state = "HAS_QUESTIONS_ABOUT_PRODUCT"
          /\ post.interrupted_from = "ORDER_CONTACT_FIRST_NAME"
          /\ post.order = pre.order
    /\ (QAFromFirstName(pre) /\ turn'.text = "done") =>
          /\ post.current_state = "HAS_QUESTIONS_ABOUT_PRODUCT"
          /\ post.interrupted_from = "ORDER_CONTACT_FIRST_NAME"
          /\ post.context_data["awaiting_resume_decision"]
    /\ (QAFromFirstName(pre) /\ pre.context_data["awaiting_resume_decision"]
          /\ turn'.text = "continue order") =>
          /\ turn'.success
          /\ post.current_state = "ORDER_CONTACT_FIRST_NAME"
          /\ InSeq("ask_first_name", turn'.out)
          /\ post.context_data["contact_first_name_shown"]
          /\ ~post.context_data["contact_first_name_complete"]
          /\ post.order.first_name = pre.order.first_name

AdminAddress == "admin"

\* C3: the turn that confirms the quote attempts exactly one send to the
\* administrative address besides the customer mail.
C3_OneAdminNotification ==
    [][\A sid \in SessionIds :
          (turn'.sid = sid /\ turn'.success
             /\ ~Before(sid).context_data["order_confirmed"]
             /\ sessions'[sid].context_data["order_confirmed"])
             => Cardinality({i \in 1..Len(turn'.mails) : turn'.mails[i].to = AdminAddress}) = 1]_vars

\* the order fields in the router's order: the flag set when the field's
\* question is shown and the flag set when the field is complete (the
\* organization name and the delivery address are sub-questions of their
\* field: they share its complete flag)
OrderFields ==
    {<<"contact_first_name_shown", "contact_first_name_complete">>,
     <<"contact_last_name_shown", "contact_last_name_complete">>,
     <<"contact_email_shown", "contact_email_complete">>,
     <<"contact_phone_shown", "contact_phone_complete">>,
     <<"org_type_shown", "org_complete">>,
     <<"type_question_shown", "type_complete">>,
     <<"budget_question_shown", "budget_complete">>,
     <<"service_question_shown", "service_complete">>,
     <<"apparel_question_shown", "apparel_complete">>,
     <<"product_question_shown", "product_complete">>,
     <<"logo_question_shown", "logo_complete">>,
     <<"decoration_location_shown", "decoration_location_complete">>,
     <<"decoration_colors_shown", "decoration_colors_complete">>,
     <<"qty_question_shown", "qty_complete">>,
     <<"sizes_question_shown", "sizes_complete">>,
     <<"delivery_question_shown", "delivery_complete">>}

OpenFields(s) ==
    {f \in OrderFields : s.context_data[f[1]] /\ ~s.context_data[f[2]]}

\* a turn has ended with the session waiting in the order flow
PausedInOrder(sid) ==
    /\ sid \in DOMAIN sessions
    /\ turn.sid = sid
    /\ turn.success
    /\ sessions[sid].current_state \in OrderStates

FieldOf(st) ==
    CASE st = "ORDER_CONTACT_FIRST_NAME" -> <<"contact_first_name_shown", "contact_first_name_complete">>
      [] st = "ORDER_CONTACT_LAST_NAME" -> <<"contact_last_name_shown", "contact_last_name_complete">>
      [] st = "ORDER_CONTACT_EMAIL" -> <<"contact_email_shown", "contact_email_complete">>
      [] st = "ORDER_CONTACT_PHONE" -> <<"contact_phone_shown", "contact_phone_complete">>
      [] st = "ORDER_ORGANIZATION" -> <<"org_type_shown", "org_complete">>
      [] st = "ORDER_TYPE" -> <<"type_question_shown", "type_complete">>
      [] st = "ORDER_BUDGET" -> <<"budget_question_shown", "budget_complete">>
      [] st = "ORDER_SERVICE" -> <<"service_question_shown", "service_complete">>
      [] st = "ORDER_APPAREL" -> <<"apparel_question_shown", "apparel_complete">>
      [] st = "ORDER_PRODUCT" -> <<"product_question_shown", "product_complete">>
      [] st = "ORDER_LOGO" -> <<"logo_question_shown", "logo_complete">>
      [] st = "ORDER_DECORATION_LOCATION" ->
           <<"decoration_location_shown", "decoration_location_complete">>
      [] st = "ORDER_DECORATION_COLORS" ->
           <<"decoration_colors_shown", "decoration_colors_complete">>
      [] st = "ORDER_QUANTITY" -> <<"qty_question_shown", "qty_complete">>
      [] st = "ORDER_SIZES" -> <<"sizes_question_shown", "sizes_complete">>
      [] st \in {"ORDER_DELIVERY", "ORDER_DELIVERY_ADDRESS"} ->
           <<"delivery_question_shown", "delivery_complete">>
      [] OTHER -> <<>>

C5_RouterIdempotent ==
    \A sid \in DOMAIN sessions :
        (is_order_state(sessions[sid].current_state) /\ sessions[sid].last_user_message = "")
           => route_order_flow(NewRun(sessions[sid])) =
                 [route |-> "end", r |-> NewRun(sessions[sid])]

\* C6: the routing pass of every turn ends at a pause or terminal point after
\* fewer than RecursionLimit node hops.
C6_PassEndsBelowHopLimit ==
    turn.hops < RecursionLimit /\ turn.err = NoneV

\* C7: a turn whose routing pass raised answers success = false with the
\* technical-difficulties text and leaves the stored session as it was before
\* the turn began.
C7_FailedTurnLeavesStoreUntouched ==
    [][\A sid \in SessionIds :
          (turn'.sid = sid /\ ~turn'.success) =>
              /\ turn'.response = "technical_difficulties"
              /\ sessions'[sid] = Before(sid)]_vars

\* the prompts of an order step
PromptsOf(st) ==
    CASE st = "ORDER_CONTACT_FIRST_NAME" -> {"ask_first_name"}
      [] st = "ORDER_CONTACT_LAST_NAME" -> {"ask_last_name"}
      [] st = "ORDER_CONTACT_EMAIL" -> {"ask_email"}
      [] st = "ORDER_CONTACT_PHONE" -> {"ask_phone"}
      [] st = "ORDER_ORGANIZATION" -> {"ask_org_type", "ask_org_name"}
      [] st = "ORDER_TYPE" -> {"ask_type"}
      [] st = "ORDER_BUDGET" -> {"ask_budget"}
      [] st = "ORDER_SERVICE" -> {"ask_service"}
      [] st = "ORDER_APPAREL" -> {"ask_apparel"}
      [] st = "ORDER_PRODUCT" -> {"ask_color"}
      [] st = "ORDER_LOGO" -> {"ask_logo"}
      [] st = "ORDER_DECORATION_LOCATION" -> {"ask_decoration_location"}
      [] st = "ORDER_DECORATION_COLORS" -> {"ask_decoration_colors"}
      [] st = "ORDER_QUANTITY" -> {"ask_quantity"}
      [] st = "ORDER_SIZES" -> {"ask_size"}
      [] st = "ORDER_DELIVERY" -> {"ask_delivery"}
      [] st = "ORDER_DELIVERY_ADDRESS" -> {"ask_delivery_address", "ask_address_one_line"}
      [] st \in {"ORDER_SUMMARY", "ORDER_POST_CONFIRMATION"} -> {"summary"}
      [] OTHER -> {}

\* the turn carries a resume decision for an interrupted order
ResumeDecision(pre, text) ==
    /\ pre.context_data["order_interrupted"]
    /\ pre.interrupted_from # NoneV
    /\ \/ /\ pre.current_state = "HAS_QUESTIONS_ABOUT_PRODUCT"
          /\ pre.context_data["awaiting_resume_decision"]
          /\ text = "continue order"
       \/ /\ pre.current_state = "WANTS_HUMAN"
          /\ text = "continue"

\* C8: after an interrupt at any order step and a resume decision, the turn
\* ends in the state recorded in interrupted_from, that step's prompt is among
\* the turn's messages, and no complete flag and no order field has changed.
C8_ResumeRestoresStep ==
    [][\A sid \in SessionIds :
          (turn'.sid = sid /\ ResumeDecision(Before(sid), turn'.text)) =>
              /\ turn'.success
              /\ sessions'[sid].current_state = Before(sid).interrupted_from
              /\ \E p \in PromptsOf(Before(sid).interrupted_from) : InSeq(p, turn'.out)
              /\ SameComplete(sessions'[sid], Before(sid))
              /\ sessions'[sid].order = Before(sid).order]_vars

\* a turn has ended with the session waiting at an order step
AtOrderStep(s) ==
    s.current_state \in OrderStates /\ ~s.context_data["order_interrupted"]

HumanContactShown(out) ==
    InSeq("human_contact_continue_order_or_end", out)
      \/ InSeq("human_contact_continue_chat_or_end", out)

C9_Step(sid) ==
    LET pre == Before(sid)
        post == sessions'[sid]
        text == Strip(turn'.text)
        out == turn'.out
    IN
    AtOrderStep(pre) =>
      IF HasAny(ProductWords, text) THEN
            /\ turn'.success
            /\ post.current_state = "HAS_QUESTIONS_ABOUT_PRODUCT"
            /\ InSeq("interrupt_product_questions", out)
            /\ ~HumanContactShown(out)
            /\ ~InSeq("interrupt_goodbye", out)
      ELSE IF wants_human(text) THEN
            /\ IF turn'.success THEN post.current_state = "WANTS_HUMAN"
                                ELSE HumanContactShown(out)
            /\ ~InSeq("interrupt_product_questions", out)
            /\ ~InSeq("interrupt_goodbye", out)
      ELSE IF wants_end(text) THEN
            /\ turn'.success
            /\ post.current_state = "END"
            /\ InSeq("interrupt_goodbye", out)
            /\ ~HumanContactShown(out)
      ELSE TRUE

InterruptWord(t) ==
    HasAny(ProductWords, Strip(t)) \/ wants_human(Strip(t)) \/ wants_end(Strip(t))

\* what a diversion may say: the interrupt detector's two messages, the
\* handoff contact details and the end flow's closing message
DiversionMessages ==
    {"interrupt_product_questions", "interrupt_goodbye", "end_message",
     "human_contact_continue_order_or_end", "human_contact_continue_chat_or_end"}

DetectorTexts == InterruptTexts \cup {"", "alice", "2", "confirm"}

SideFlowStates == {"HAS_QUESTIONS_ABOUT_PRODUCT", "WANTS_HUMAN", "END"}

DetectorEffect(s, t) ==
    LET r == NewRun(Received(s, t))
        ci == check_interrupt(r)
    IN
    /\ (ci.hit # NoneV) <=> (Text(r) # "" /\ InterruptWord(Text(r)))
    /\ IF ci.hit # NoneV
       THEN /\ ci.hit \in SideFlowStates
            /\ ci.r.s.interrupted_from = r.s.current_state
            /\ ci.r.s.context_data["order_interrupted"]
            /\ ci.r.s.current_state = ci.hit
       ELSE ci.r = r

AddressPrompts == {"ask_delivery_address", "ask_address_one_line"}

\* the delivery question is open and the turn's text answers it
AnswersDelivery(s, text) ==
    /\ s.current_state = "ORDER_DELIVERY"
    /\ ~s.context_data["order_interrupted"]
    /\ s.context_data["delivery_question_shown"]
    /\ ~s.context_data["delivery_complete"]
    /\ ~s.context_data["awaiting_address"]
    /\ ~InterruptWord(text)

C12_Step(sid) ==
    LET pre == Before(sid)
        post == sessions'[sid]
        text == Strip(turn'.text)
    IN
    /\ (AnswersDelivery(pre, turn'.text) /\ Has("pickup", text) /\ ~Has("deliver", text)) =>
          /\ turn'.success
          /\ post.order.delivery_option = "Pick Up"
          /\ post.context_data["delivery_complete"]
          /\ ~post.context_data["address_question_shown"]
          /\ \A i \in 1..Len(turn'.out) : turn'.out[i] \notin AddressPrompts
          /\ InSeq("summary", turn'.out)
          /\ post.current_state = "ORDER_SUMMARY"
    /\ (AnswersDelivery(pre, turn'.text) /\ Has("deliver", text)) =>
          /\ post.order.delivery_option = "Delivery"
          /\ ~post.context_data["delivery_complete"]
          /\ ~InSeq("summary", turn'.out)
    /\ (post.context_data["summary_shown"] /\ post.order.delivery_option = "Delivery") =>
          post.order.delivery_address \notin {NoneV, ""}

OrderReprompts ==
    {"reprompt_first_name", "reprompt_last_name", "reprompt_email", "reprompt_phone",
     "reprompt_org_type", "reprompt_org_name", "reprompt_type", "reprompt_budget",
     "reprompt_service", "reprompt_apparel", "reprompt_logo",
     "reprompt_decoration_location", "reprompt_decoration_colors",
     "reprompt_quantity", "reprompt_quantity_option", "reprompt_sizes",
     "reprompt_delivery"}

\* the node the router picks for the session's next turn with text t
RoutedTo(s, t) == route_order_flow(NewRun(Received(s, t))).route

\* the turn starts at an order step whose prompt is shown and whose field is
\* open, with a non-empty text that is no interrupt
AnswersOpenStep(s, text) ==
    /\ AtOrderStep(s)
    /\ OpenFields(s) # {}
    /\ text # ""
    /\ ~InterruptWord(text)

C13_Step(sid) ==
    LET pre == Before(sid)
        post == sessions'[sid]
        text == turn'.text
        out == turn'.out
    IN
    AnswersOpenStep(pre, text) =>
      /\ (pre.current_state = "ORDER_CONTACT_EMAIL" /\ ~Has("@", Strip(text)))
            => InSeq("reprompt_email", out)
      /\ (pre.current_state = "ORDER_BUDGET" /\ Strip(text) \notin {"1", "2"}
            /\ ~Has("premium", Strip(text)) /\ ~Has("value", Strip(text)))
            => InSeq("reprompt_budget", out)
      /\ (\E i \in 1..Len(out) : out[i] \in OrderReprompts) =>
            /\ turn'.success
            /\ Len(out) = 1
            /\ post.last_user_message = ""
            /\ post.order = pre.order
            /\ SameComplete(post, pre)
            /\ OpenFields(post) = OpenFields(pre)
            /\ post.current_state \in OrderStates
            /\ RoutedTo(post, "x") = RoutedTo(pre, text)

RECURSIVE Visits(_, _, _)
Visits(node, r, e) ==
    IF r.hops >= RecursionLimit THEN <<>>
    ELSE
      LET r1 == [run_node(node, r, e) EXCEPT !.hops = r.hops + 1]
          nx == next_node(node, r1)
          here == <<[node |-> node, before |-> r, after |-> r1, routed |-> nx.r]>>
      IN
      IF ~nx.ok \/ nx.next = GraphEnd THEN here
      ELSE here \o Visits(nx.next, nx.r, e)

\* the "prompt shown" flag a step node tests before it reads an answer
ShownFlag(node) ==
    CASE node = "order_contact_first_name" -> "contact_first_name_shown"
      [] node = "order_contact_last_name" -> "contact_last_name_shown"
      [] node = "order_contact_email" -> "contact_email_shown"
      [] node = "order_contact_phone" -> "contact_phone_shown"
      [] node = "order_organization" -> "org_type_shown"
      [] node = "order_type" -> "type_question_shown"
      [] node = "order_budget" -> "budget_question_shown"
      [] node = "order_service" -> "service_question_shown"
      [] node = "order_apparel" -> "apparel_question_shown"
      [] node = "order_product" -> "product_question_shown"
      [] node = "order_logo" -> "logo_question_shown"
      [] node = "order_decoration_location" -> "decoration_location_shown"
      [] node = "order_decoration_colors" -> "decoration_colors_shown"
      [] node = "order_quantity" -> "qty_question_shown"
      [] node = "order_sizes" -> "sizes_question_shown"
      [] node = "order_delivery" -> "delivery_question_shown"
      [] node = "order_delivery_address" -> "address_question_shown"

\* the node runs with its prompt not shown (or the resume sentinel, which
\* resets the flag) and the text holds no interrupt
RunsUnprompted(v) ==
    /\ v.node \in OrderStepNodes
    /\ check_interrupt(v.before).hit = NoneV
    /\ ~Ctx(v.before, ShownFlag(v.node)) \/ Text(v.before) = "__RESUME__"

\* nothing of the order is written and the pending text is cleared
StoresNothing(v) ==
    /\ v.after.s.order = v.before.s.order
    /\ Text(v.after) = ""
    /\ v.after.mails = v.before.mails

\* a step's question (the model names every question "ask_...")
IsQuestion(m) == Len(m) >= 4 /\ SubSeq(m, 1, 4) = "ask_"

\* the node only asks: one message, the flag set, no complete flag touched
OnlyAsks(v) ==
    /\ Len(v.after.out) = Len(v.before.out) + 1
    /\ IsQuestion(v.after.out[Len(v.after.out)])
    /\ Ctx(v.after, ShownFlag(v.node))
    /\ SameComplete(v.after.s, v.before.s)

\* the node completes its step without a prompt and without a message
CompletesSilently(v) ==
    /\ v.node \in {"order_product", "order_delivery_address"}
    /\ v.after.out = v.before.out
    /\ ~Ctx(v.after, ShownFlag(v.node))
    /\ Ctx(v.after, IF v.node = "order_product" THEN "product_complete"
                    ELSE "delivery_complete")

\* P holds of every step-node run of every turn the stored sessions can take
\* next
AllTurnVisits(P(_)) ==
    \A sid \in SessionIds :
      \A t \in Replies(Before(sid)) :
        \A e \in Envs(Before(sid), t) :
          \A vs \in {Visits("resume", NewRun(Received(Before(sid), t)), e)} :
            \A i \in 1..Len(vs) : \A v \in {vs[i]} : P(v)

OnlyAsksUnprompted(v) == RunsUnprompted(v) => (StoresNothing(v) /\ OnlyAsks(v))

NoAnswerUnprompted(v) ==
    RunsUnprompted(v) => (StoresNothing(v) /\ (OnlyAsks(v) \/ CompletesSilently(v)))

\* C14 as stated: a step node that runs with its shown flag false only emits
\* its question, sets the flag and clears the pending text, storing nothing.
C14_UnpromptedOnlyAsks == AllTurnVisits(OnlyAsksUnprompted)

\* C14 (amended): a step node that runs with its shown flag false never
\* stores the pending text: it writes nothing to the order and clears the
\* text, and it either only emits its question and sets the flag, or (the
\* colour step when the colour came with the product, the address step when
\* no address is awaited) completes its step without a prompt.
C14_NoAnswerBeforePrompt == AllTurnVisits(NoAnswerUnprompted)

\* the product answer carried the colour, so the colour step completed in the
\* same turn without having shown its prompt
C14_Witness ==
    /\ turn.text = "1,black"
    /\ turn.sid \in DOMAIN sessions
    /\ sessions[turn.sid].order.color = "black"
    /\ sessions[turn.sid].context_data["product_complete"]
    /\ ~sessions[turn.sid].context_data["product_question_shown"]
    /\ sessions[turn.sid].context_data["logo_question_shown"]

\* ids handed to the store: the ids in use and one that is never stored
StoreIds == SessionIds \cup {"s0"}

\* records handed to save: a fresh record and the record of the id with a
\* message received
SavedRecords(store, sid) == {SessionState, Received(store[sid], "hi")}

StoreContract(sid) ==
    LET g == get_session(sessions, sid) IN
    /\ DOMAIN g = DOMAIN sessions \cup {sid}
    /\ \A o \in DOMAIN sessions \ {sid} : g[o] = sessions[o]
    /\ sid \notin DOMAIN sessions =>
          /\ g[sid].current_state = "WELCOME"
          /\ \A k \in DOMAIN g[sid].order :
                g[sid].order[k] = (CASE k = "decoration_colors" -> NoneInt
                                     [] k = "sizes" -> <<>>
                                     [] OTHER -> NoneV)
          /\ \A k \in CtxFlags : ~g[sid].context_data[k]
          /\ g[sid].conversation_history = <<>>
          /\ g[sid].interrupted_from = NoneV
    /\ sid \in DOMAIN sessions => g = sessions
    /\ get_session(g, sid) = g
    /\ \A a \in SavedRecords(g, sid) : \A b \in SavedRecords(g, sid) :
          LET saved == update_session(update_session(g, sid, a), sid, b) IN
          /\ get_session(saved, sid) = saved
          /\ saved[sid] = b
          /\ DOMAIN saved = DOMAIN g
          /\ \A o \in DOMAIN g \ {sid} : saved[o] = g[o]

\* C15: in every reachable store, get for an id that is not stored adds a
\* record with state WELCOME, an empty order, no flag set and an empty
\* history and leaves the other records alone; get for a stored id changes
\* nothing; save replaces the whole record of its id, so after two saves get
\* returns the record of the later save.
C15_StoreContract == \A sid \in StoreIds : StoreContract(sid)

\* the store holds a record that chat fetched, created on first contact, and
\* saved again turn after turn
C15_Witness ==
    /\ "s1" \in DOMAIN sessions
    /\ "s0" \notin DOMAIN sessions
    /\ sessions["s1"].order.first_name = "alice"
    /\ sessions["s1"].current_state = "ORDER_CONTACT_EMAIL"

\* the step is not one of sid's own call: its call was and stays in flight,
\* or it had and has none
NotActing(sid) ==
    /\ (sid \in DOMAIN pending) <=> (sid \in DOMAIN pending')
    /\ sid \in DOMAIN pending => pending'[sid] = pending[sid]

\* the step ends sid's call
Ending(sid) == sid \in DOMAIN pending /\ sid \notin DOMAIN pending'

\* what sid's call leaves in the store when run on the record it fetched, alone
SoloOutcomes(sid) ==
    {IF r.err = NoneV THEN r.s ELSE pending[sid].state :
        r \in {invoke("resume", NewRun(pending[sid].state), e) :
                 e \in Envs(pending[sid].state, pending[sid].text)}}

C16_Step(sid) ==
    /\ NotActing(sid) =>
          /\ (sid \in DOMAIN sessions') <=> (sid \in DOMAIN sessions)
          /\ sid \in DOMAIN sessions => sessions'[sid] = sessions[sid]
    /\ Ending(sid) =>
          /\ sessions[sid] = pending[sid].state
          /\ sessions'[sid] \in SoloOutcomes(sid)
          /\ turn'.sid = sid

\* C16: with the calls of two sessions interleaved in any way, a step of one
\* session's call never changes the other session's record, and when a call
\* ends the store still holds the record the call fetched and the record it
\* saves is the one the call produces on that record alone; so each session's
\* stored record is what its own turns, run alone in the same order, produce.
C16_SessionIsolation == [][\A sid \in IsoIds : C16_Step(sid)]_vars

\* a turn of s2 ended in the order flow while a call of s1, diverted to
\* product questions earlier, was in flight
C16_Witness ==
    /\ DOMAIN sessions = IsoIds
    /\ "s1" \in DOMAIN pending
    /\ "s2" \notin DOMAIN pending
    /\ turn.sid = "s2"
    /\ sessions["s2"].current_state = "ORDER_CONTACT_LAST_NAME"
    /\ sessions["s1"].current_state = "HAS_QUESTIONS_ABOUT_PRODUCT"
    /\ sessions["s1"].last_user_message = "done"

\* the history entries of the messages a node added to the run's output
Added(before, after) ==
    [i \in 1..(Len(after.out) - Len(before.out)) |->
        [role |-> "assistant", content |-> after.out[Len(before.out) + i]]]

\* h1 is h0 with the entries q appended (as far as the history is kept)
Appended(h0, q, h1) == h1 = Window(h0 \o q)

\* a node, and the routing function after it, only append to the history
NodeAppends(v) ==
    /\ Len(v.after.out) >= Len(v.before.out)
    /\ Appended(v.before.s.conversation_history, Added(v.before, v.after),
                v.after.s.conversation_history)
    /\ v.routed.s.conversation_history = v.after.s.conversation_history

\* chat's own step: the user message is appended, an empty one adds nothing
ReceiveAppends(s, t) ==
    Appended(s.conversation_history,
             IF t = "" THEN <<>> ELSE <<[role |-> "user", content |-> t]>>,
             Received(s, t).conversation_history)

\* the post-confirmation choice (another quote, end, anything else) applied
\* to a confirmed session
ResetAppends(s) ==
    s.context_data["order_confirmed"] =>
      \A t \in {"new quote", "end", "hm"} : \A shown \in BOOLEAN :
        LET r == SetCtx(NewRun(Received(s, t)), "post_order_question_shown", shown)
            r1 == order_post_confirmation_node(r)
        IN Appended(r.s.conversation_history, Added(r, r1), r1.s.conversation_history)

AfterConfirmation(s) ==
    /\ s.current_state = "ORDER_POST_CONFIRMATION"
    /\ s.context_data["order_confirmed"]
    /\ ~s.context_data["order_interrupted"]

C18_Step(sid) ==
    LET pre == Before(sid)
        post == sessions'[sid]
    IN
    AfterConfirmation(pre) =>
      /\ turn'.text = "main menu" =>
            /\ turn'.success
            /\ post.order = OrderDetails
            /\ \A k \in CompleteFlags : ~post.context_data[k]
            /\ \A f \in OrderFields : ~post.context_data[f[1]]
            /\ post.current_state \notin OrderStates
            /\ Appended(pre.conversation_history,
                        <<[role |-> "user", content |-> turn'.text]>>
                          \o [i \in 1..Len(turn'.out) |->
                                [role |-> "assistant", content |-> turn'.out[i]]],
                        post.conversation_history)
      /\ turn'.text = "stop" =>
            /\ turn'.success
            /\ post.current_state = "END"

Greetings(out) == Cardinality({i \in 1..Len(out) : out[i] = "greeting"})

C19_Step(sid) ==
    IF Before(sid).current_state = "WELCOME"
    THEN Greetings(turn'.out) <= 1
    ELSE Greetings(turn'.out) = 0

\* C19: the greeting is emitted at most once per session: the first turn of
\* a session (through the welcome node or straight to the menu) emits it at
\* most once, and no later turn, whatever side flow it returns from, emits it
\* again or spends the user's message on showing it.
C19_GreetingOnce ==
    [][\A sid \in SessionIds : turn'.sid = sid => C19_Step(sid)]_vars

\* menu messages and the intent the keyword matcher's precedence gives each
MenuProbes ==
    {<<"price of an order", "Has Questions about Product">>,
     <<"call me to order", "Place order">>,
     <<"i want a quote", "Place order">>,
     <<"cancel the agent", "Wants Human">>,
     <<"human", "Wants Human">>,
     <<"stop", "End conversation">>,
     <<"hi", "No match">>}

\* where the menu sends each intent
MenuTarget(intent) ==
    CASE intent = "Has Questions about Product" -> "HAS_QUESTIONS_ABOUT_PRODUCT"
      [] intent = "Place order" -> "ORDER_CONTACT"
      [] intent = "Wants Human" -> "WANTS_HUMAN"
      [] intent = "End conversation" -> "END"
      [] OTHER -> "MAIN_MENU"

\* the menu has greeted and waits for a message
AtMenu(s) == s.current_state = "MAIN_MENU" /\ s.context_data["main_menu_prompted"]

\* the menu node's answer to probe p under environment e
MenuFallsBack(s, p, e) ==
    LET r == main_menu_node(NewRun(Received(s, p[1])), e) IN
    /\ r.s.classified_intent = p[2]
    /\ r.s.current_state = MenuTarget(p[2])
    /\ route_from_main_menu(r) = (CASE p[2] = "Has Questions about Product" -> "product_questions"
                                    [] p[2] = "Place order" -> "order_contact"
                                    [] p[2] = "Wants Human" -> "wants_human"
                                    [] p[2] = "End conversation" -> "end_conversation"
                                    [] OTHER -> "end")

\* the classifier call fails (the request or the parsing of its answer raises)
ClassifierFails == [DefaultEnv EXCEPT !.classifier_ok = FALSE]

\* C20: when the classifier fails on a menu message the menu routes by the
\* keyword matcher, product before order before human before end: an order
\* keyword without a product keyword starts the order flow, a human keyword
\* goes to handoff, an end keyword ends, and only a message without any
\* keyword stays in the menu.
C20_FallbackOnClassifierFailure ==
    \A sid \in SessionIds :
      AtMenu(Before(sid)) =>
        \A p \in MenuProbes : MenuFallsBack(Before(sid), p, ClassifierFails)


\* product Q&A waits for the resume decision of an interrupted order
AwaitingDecision(s) ==
    /\ s.current_state = "HAS_QUESTIONS_ABOUT_PRODUCT"
    /\ s.context_data["order_interrupted"]
    /\ s.context_data["awaiting_resume_decision"]

\* the interrupt markers are cleared
MarkersCleared(s) ==
    /\ ~s.context_data["order_interrupted"]
    /\ ~s.context_data["awaiting_resume_decision"]
    /\ s.interrupted_from = NoneV

SameMarkers(a, b) ==
    /\ a.interrupted_from = b.interrupted_from
    /\ a.context_data["order_interrupted"] = b.context_data["order_interrupted"]
    /\ a.context_data["awaiting_resume_decision"] = b.context_data["awaiting_resume_decision"]

C21_Step(sid) ==
    LET pre == Before(sid)
        post == sessions'[sid]
    IN
    (AwaitingDecision(pre) /\ turn'.text # "") =>
      /\ turn'.success
      /\ turn'.text = "continue order" =>
            /\ post.current_state = pre.interrupted_from
            /\ MarkersCleared(post)
      /\ turn'.text = "main menu" =>
            /\ post.current_state = "MAIN_MENU"
            /\ MarkersCleared(post)
            /\ ~InSeq("offer_resume_or_menu", turn'.out)
      /\ \/ post.current_state = pre.interrupted_from /\ MarkersCleared(post)
         \/ post.current_state = "MAIN_MENU" /\ MarkersCleared(post)
         \/ AwaitingDecision(post) /\ SameMarkers(post, pre) /\ turn'.out # <<>>

\* C21: while product Q&A awaits the resume decision, "continue order" resumes
\* the interrupted step and "main menu" moves the session to the main menu,
\* both with the interrupt markers cleared; every reply leaves by one of the
\* two branches or is answered with the decision still awaited, and "main
\* menu" does not ask for the decision again.
C21_ResumeDecisionBranches ==
    [][\A sid \in SessionIds : turn'.sid = sid => C21_Step(sid)]_vars


\* the retrieval collaborator raises
RetrievalFails == [DefaultEnv EXCEPT !.rag_ok = FALSE]

\* the turn of text t on session s in which retrieval, if called, fails
FailedRetrievalTurn(s, t) == invoke("resume", NewRun(Received(s, t)), RetrievalFails)

RetrievalFailureHandled(s, t) ==
    \A res \in {FailedRetrievalTurn(s, t)} :
      res.rags > 0 =>
        /\ res.err = NoneV
        /\ res.out = <<"rag_unavailable">>
        /\ LatestReply(res.s.conversation_history) = "rag_unavailable"
        /\ res.s.last_user_message = ""
        /\ s.current_state = "HAS_QUESTIONS_ABOUT_PRODUCT"
        /\ res.s.current_state = "HAS_QUESTIONS_ABOUT_PRODUCT"
        /\ SameMarkers(res.s, s)
        /\ res.s.order = s.order

\* C22: a retrieval failure in product Q&A does not abort the turn: the turn
\* succeeds, its only message is the fixed fallback text, the pending text is
\* cleared, and the session stays in product Q&A with interrupted_from,
\* order_interrupted and awaiting_resume_decision as they were.
C22_RetrievalFailureHandled ==
    \A sid \in SessionIds :
      \A t \in Replies(Before(sid)) : RetrievalFailureHandled(Before(sid), t)

\* a turn answered with the fallback text in an interrupted order
C22_Witness ==
    /\ turn.out = <<"rag_unavailable">>
    /\ turn.success
    /\ turn.sid \in DOMAIN sessions
    /\ sessions[turn.sid].current_state = "HAS_QUESTIONS_ABOUT_PRODUCT"
    /\ sessions[turn.sid].context_data["order_interrupted"]
    /\ sessions[turn.sid].interrupted_from = "ORDER_BUDGET"


\* the re-prompts of human handoff, each naming its two choices
HandoffReprompts == {"reprompt_continue_order_or_end", "reprompt_continue_chat_or_end"}

\* the last turn of sid showed the contact details of human handoff
ContactJustShown(sid) == turn.sid = sid /\ HumanContactShown(turn.out)

\* a reply to human handoff has one of the outcomes offered
HandoffOutcome(sid) ==
    LET post == sessions'[sid] IN
    /\ turn'.success
    /\ \/ post.current_state \notin {"WANTS_HUMAN", "END"}
       \/ post.current_state = "END"
       \/ /\ post.current_state = "WANTS_HUMAN"
          /\ \E m \in HandoffReprompts : turn'.out = <<m>>
          /\ post.last_user_message = ""

\* C23: once human handoff has shown the contact details, every reply
\* continues (leaves WANTS_HUMAN), ends (END) or is answered by the re-prompt
\* with the session still in WANTS_HUMAN and the pending text cleared; the
\* contact details are not emitted a second time.
C23_HandoffTwoChoices ==
    [][\A sid \in SessionIds :
          (ContactJustShown(sid) /\ turn'.sid = sid /\ turn'.text # "") =>
              /\ HandoffOutcome(sid)
              /\ ~HumanContactShown(turn'.out)]_vars

\* C24: the reply "continue" to human handoff resumes the interrupted order
\* (the turn ends at the interrupted step, its prompt emitted again,
\* order_interrupted cleared) or, with no order interrupted, returns to the
\* main menu; the routing pass of that turn ends without a routing error.
C24_ContinueResumesOrMenu ==
    [][\A sid \in SessionIds :
          (ContactJustShown(sid) /\ turn'.sid = sid /\ turn'.text = "continue") =>
              /\ turn'.err = NoneV
              /\ IF Before(sid).context_data["order_interrupted"]
                      /\ Before(sid).interrupted_from # NoneV
                 THEN /\ sessions'[sid].current_state = Before(sid).interrupted_from
                      /\ \E p \in PromptsOf(Before(sid).interrupted_from) : InSeq(p, turn'.out)
                      /\ ~sessions'[sid].context_data["order_interrupted"]
                 ELSE sessions'[sid].current_state = "MAIN_MENU"]_vars


\* the closing messages of the flows that end a conversation
ClosingMessages ==
    {"end_message", "interrupt_goodbye", "menu_to_end", "human_goodbye",
     "order_cancelled", "post_confirmation_goodbye"}

\* how many closing messages a turn emitted
RECURSIVE Closings(_)
Closings(out) ==
    IF out = <<>> THEN 0
    ELSE (IF Head(out) \in ClosingMessages THEN 1 ELSE 0) + Closings(Tail(out))

\* the turn brought the session to END
ArrivesAtEnd(sid) ==
    /\ turn'.success
    /\ Before(sid).current_state # "END"
    /\ sessions'[sid].current_state = "END"

\* the turn found the session in END and left it there
StaysInEnd(sid) ==
    /\ turn'.success
    /\ Before(sid).current_state = "END"
    /\ sessions'[sid].current_state = "END"

\* C25: a turn that brings a session to END emits exactly one closing
\* message, and a turn that finds the session in END and leaves it there
\* emits none.
C25_ClosingOnce ==
    [][\A sid \in SessionIds : turn'.sid = sid =>
          /\ ArrivesAtEnd(sid) => Closings(turn'.out) = 1
          /\ StaysInEnd(sid) => Closings(turn'.out) = 0]_vars


\* the conversation waits at the logo step
AtLogoStep(s) ==
    /\ s.current_state = "ORDER_LOGO"
    /\ s.context_data["logo_question_shown"]
    /\ ~s.context_data["logo_complete"]

\* the upload attempt of the last call failed
UploadFailed == uploaded.outcome \in {"upload_raises", "import_raises"}

\* what the router picks for the next message of session s
NextRoute(s, t) == route_order_flow(NewRun(Received(s, t))).route

\* C26: after an upload attempt that failed for a session waiting at the logo
\* step, the session has logo_complete set, the failure is a message of its
\* history, and the router sends the next turn past the logo step.
C26_FailedUploadDoesNotBlock ==
    \A sid \in SessionIds :
      (UploadFailed /\ uploaded.sid = sid /\ sid \in DOMAIN sessions
         /\ sessions[sid].current_state = "ORDER_LOGO") =>
          /\ sessions[sid].context_data["logo_complete"]
          /\ \E i \in 1..Len(sessions[sid].conversation_history) :
                sessions[sid].conversation_history[i].content = "upload_failed"
          /\ NextRoute(sessions[sid], "continue") # "order_logo"


\* the summary is displayed and unanswered
SummaryDisplayed(s) ==
    /\ s.current_state = "ORDER_SUMMARY"
    /\ s.context_data["summary_shown"]
    /\ ~s.context_data["order_confirmed"]
    /\ ~s.context_data["order_interrupted"]

\* replies to the summary: edit requests, a reply without any keyword, and
\* replies the interrupt detector takes
SummaryProbes ==
    {"change color to navy", "change budget range to premium", "put acme on it",
     "looks good", "human", "pricing"}

\* change lists the change parser may return for them
ProbeChanges ==
    ChangeLists \cup
    {<<[field |-> "budget_range", new_value |-> "premium"]>>,
     <<[field |-> "budget_range", new_value |-> "platinum"]>>,
     <<[field |-> "price", new_value |-> "free"]>>,
     <<[field |-> "organization", new_value |-> "acme"],
       [field |-> "color", new_value |-> "plaid"]>>,
     <<[field |-> "logo", new_value |-> "reset"],
       [field |-> "color", new_value |-> "navy"]>>}

\* what the classifier and the change parser may answer to a summary reply
SummaryEnvs ==
    {[DefaultEnv EXCEPT !.changes = c] : c \in ProbeChanges}
      \cup {[DefaultEnv EXCEPT !.parse_ok = FALSE]}
      \cup {[DefaultEnv EXCEPT !.intent = i] : i \in {"Yes", "No"}}

\* the field names the change parser is told to use, and the order field each
\* one writes
ChangeFields ==
    [first_name |-> "first_name", last_name |-> "last_name", email |-> "email",
     phone |-> "phone", organization |-> "org_name", order_type |-> "order_type",
     budget_range |-> "budget_range", service_type |-> "service_type",
     apparel_category |-> "apparel_category", product_name |-> "product_name",
     color |-> "color", decoration_location |-> "decoration_location",
     decoration_colors |-> "decoration_colors", total_quantity |-> "total_quantity",
     delivery_option |-> "delivery_option", delivery_address |-> "delivery_address"]

HasConfirmOrCancelKeyword(t) == HasAny({"yes", "confirm", "no", "cancel"}, t)

\* the reply was handled as an edit request
HandledAsEdit(s, e, res) ==
    /\ res.err = NoneV
    /\ res.s.current_state = "ORDER_SUMMARY"
    /\ ~res.s.context_data["order_confirmed"]
    /\ res.mails = <<>>
    /\ res.s.last_user_message = ""
    /\ \A f \in DOMAIN res.s.order :
          res.s.order[f] # s.order[f] =>
             \E i \in 1..Len(e.changes) :
                /\ e.changes[i].field \in DOMAIN ChangeFields
                /\ ChangeFields[e.changes[i].field] = f
    /\ res.s.order.color # s.order.color => res.s.order.color \in valid_colors
    /\ res.s.order.budget_range # s.order.budget_range =>
          res.s.order.budget_range \in {"Premium", "Value"}
    /\ res.out # <<>>
    /\ res.out[Len(res.out)] \in
          {"summary_updated", "change_not_understood", "change_error", "logo_cannot_change"}
    /\ (res.s.order # s.order) => res.out[Len(res.out)] = "summary_updated"

\* P holds of every answer to a summary reply on every displayed summary
AllSummaryReplies(P(_, _, _, _)) ==
    \A sid \in SessionIds :
      SummaryDisplayed(Before(sid)) =>
        \A t \in SummaryProbes : \A e \in SummaryEnvs :
          \A res \in {invoke("resume", NewRun(Received(Before(sid), t)), e)} :
            P(Before(sid), t, e, res)

EditUnlessKeyword(s, t, e, res) ==
    ~HasConfirmOrCancelKeyword(t) => HandledAsEdit(s, e, res)

EditUnlessRecognised(s, t, e, res) ==
    (/\ ~HasConfirmOrCancelKeyword(t)
     /\ e.intent \notin {"Yes", "No"}
     /\ check_interrupt(NewRun(Received(s, t))).hit = NoneV) => HandledAsEdit(s, e, res)

QuantityOpen(s) ==
    /\ s.current_state = "ORDER_QUANTITY"
    /\ s.context_data["qty_question_shown"]
    /\ ~s.context_data["qty_complete"]
    /\ ~s.context_data["order_interrupted"]

\* quantity replies made of integer tokens
QuantityProbes == {"20 30", "20", "2", "7 9 11"}

RECURSIVE SumOf(_)
SumOf(q) == IF q = <<>> THEN 0 ELSE IntOf(Head(q)) + SumOf(Tail(q))

\* the arithmetic mean of the integers of t, rounded to the nearest integer
RoundedMean(t) ==
    LET q == DigitRuns(t) IN (2 * SumOf(q) + Len(q)) \div (2 * Len(q))

\* the decimal text of a natural number
RECURSIVE Decimal(_)
Decimal(n) ==
    LET d == CHOOSE c \in Digits : DigitVal(c) = n % 10 IN
    IF n < 10 THEN d ELSE Decimal(n \div 10) \o d

\* C28: a quantity reply made of integer tokens stores the integer, or the
\* rounded mean of the integers when there are several ("20 30" stores 25).
C28_QuantityIsMean ==
    \A sid \in SessionIds :
      QuantityOpen(Before(sid)) =>
        \A t \in QuantityProbes :
          \A res \in {invoke("resume", NewRun(Received(Before(sid), t)), DefaultEnv)} :
            /\ res.s.context_data["qty_complete"]
            /\ res.s.order.total_quantity = Decimal(RoundedMean(t))


\* per canonical size, the sum of the quantities of its mentions
RECURSIVE MentionSums(_)
MentionSums(ms) ==
    IF ms = <<>> THEN <<>>
    ELSE AddSize(MentionSums(Tail(ms)), canonical_size(ms[1].label), IntOf(ms[1].qty))

RECURSIVE TotalOf(_)
TotalOf(ms) == IF ms = <<>> THEN 0 ELSE IntOf(ms[1].qty) + TotalOf(Tail(ms))

SameSizes(a, b) ==
    /\ DOMAIN a = DOMAIN b
    /\ \A k \in DOMAIN a : a[k] = b[k]

\* C29: for a text of size mentions in the forms "LABEL:QTY", "QTY LABEL" and
\* "QTY x LABEL", parse_sizes returns, per canonical size, the sum of the
\* quantities of that size's mentions, whichever form each mention has.
C29_EveryMentionOnce ==
    parsed.done =>
      /\ parsed.result.err = NoneV
      /\ SameSizes(parsed.result.sizes, MentionSums(parsed.mentions))


\* the fixed step order of the order router: each step's complete flag, its
\* prompt-shown flag and its node; the delivery question and the address
\* question share the delivery flag, the address being the open one while an
\* address is awaited
RouterSteps ==
    <<[complete |-> "contact_first_name_complete", shown |-> "contact_first_name_shown",
       node |-> "order_contact_first_name"],
      [complete |-> "contact_last_name_complete", shown |-> "contact_last_name_shown",
       node |-> "order_contact_last_name"],
      [complete |-> "contact_email_complete", shown |-> "contact_email_shown",
       node |-> "order_contact_email"],
      [complete |-> "contact_phone_complete", shown |-> "contact_phone_shown",
       node |-> "order_contact_phone"],
      [complete |-> "org_complete", shown |-> "org_type_shown", node |-> "order_organization"],
      [complete |-> "type_complete", shown |-> "type_question_shown", node |-> "order_type"],
      [complete |-> "budget_complete", shown |-> "budget_question_shown",
       node |-> "order_budget"],
      [complete |-> "service_complete", shown |-> "service_question_shown",
       node |-> "order_service"],
      [complete |-> "apparel_complete", shown |-> "apparel_question_shown",
       node |-> "order_apparel"],
      [complete |-> "product_complete", shown |-> "product_question_shown",
       node |-> "order_product"],
      [complete |-> "logo_complete", shown |-> "logo_question_shown", node |-> "order_logo"],
      [complete |-> "decoration_location_complete", shown |-> "decoration_location_shown",
       node |-> "order_decoration_location"],
      [complete |-> "decoration_colors_complete", shown |-> "decoration_colors_shown",
       node |-> "order_decoration_colors"],
      [complete |-> "qty_complete", shown |-> "qty_question_shown", node |-> "order_quantity"],
      [complete |-> "sizes_complete", shown |-> "sizes_question_shown", node |-> "order_sizes"],
      [complete |-> "delivery_complete", shown |-> "delivery_question_shown",
       node |-> "order_delivery"]>>

AddressStep ==
    [complete |-> "delivery_complete", shown |-> "address_question_shown",
     node |-> "order_delivery_address"]

\* the positions of the incomplete steps
OpenSteps(r) == {i \in 1..Len(RouterSteps) : ~Ctx(r, RouterSteps[i].complete)}

\* the first incomplete step
FirstOpenStep(r) ==
    LET i == CHOOSE k \in OpenSteps(r) : \A j \in OpenSteps(r) : k <= j
    IN IF RouterSteps[i].node = "order_delivery" /\ Ctx(r, "awaiting_address")
       THEN AddressStep ELSE RouterSteps[i]

\* a router pass over an order that is not interrupted and has an open step:
\* the route is the first open step's node, or the pause when that step's
\* prompt is shown and no text is pending
SelectsFirstOpen(v) ==
    (/\ v.node = "order_router"
     /\ ~Ctx(v.after, "order_interrupted")
     /\ OpenSteps(v.after) # {}) =>
       LET st == FirstOpenStep(v.after) IN
       route_order_flow(v.after).route =
         IF Ctx(v.after, st.shown) /\ Text(v.after) = "" THEN "end" ELSE st.node

InterruptedNotRouted(v) ==
    (v.node = "order_router" /\ Ctx(v.after, "order_interrupted")) =>
      LET route == route_order_flow(v.after).route
          st == v.after.s.current_state
      IN
      /\ route \notin OrderStepNodes \cup {"order_summary"}
      /\ st = "HAS_QUESTIONS_ABOUT_PRODUCT" => route = "end"
      /\ st = "WANTS_HUMAN" => route = "wants_human"
      /\ st = "END" => route = "end_conversation"

\* C31: while order_interrupted is set the router never selects an order step
\* node: it pauses in product Q&A and routes to the handoff in WANTS_HUMAN and
\* to the end flow in END, whatever the completion flags and the pending text.
C31_InterruptedOrderNotRouted == AllTurnVisits(InterruptedNotRouted)

\* a product question at the service step has gone through the router with
\* the order suspended, and the router paused
C31_Witness ==
    /\ turn.sid \in DOMAIN sessions
    /\ turn.text = "pricing"
    /\ turn.err = NoneV
    /\ sessions[turn.sid].current_state = "HAS_QUESTIONS_ABOUT_PRODUCT"
    /\ sessions[turn.sid].context_data["order_interrupted"]
    /\ sessions[turn.sid].interrupted_from = "ORDER_SERVICE"
    /\ sessions[turn.sid].context_data["budget_complete"]


\* every step of the fixed order is complete
AllStepsComplete(r) == OpenSteps(r) = {}

\* the summary node runs only with every step complete, and a router pass
\* over an uninterrupted order with every step complete selects the summary
SummaryIffComplete(v) ==
    /\ v.node = "order_summary" => AllStepsComplete(v.before)
    /\ (v.node = "order_router" /\ ~Ctx(v.after, "order_interrupted")) =>
         (route_order_flow(v.after).route = "order_summary" <=> AllStepsComplete(v.after))

\* the contact of a stored session is filled in
ContactFilled(s) ==
    /\ s.order.first_name \notin {NoneV, ""}
    /\ s.order.last_name \notin {NoneV, ""}
    /\ s.order.email # NoneV /\ Has("@", s.order.email)
    /\ s.order.phone \notin {NoneV, ""}

\* C32: the summary step is invoked if and only if every order field's
\* complete flag is true; whenever the summary is shown or the order is
\* confirmed, first name, last name, email (containing "@") and phone are all
\* non-empty.
C32_SummaryOnlyWhenComplete ==
    /\ AllTurnVisits(SummaryIffComplete)
    /\ \A sid \in DOMAIN sessions :
         (sessions[sid].context_data["summary_shown"]
            \/ sessions[sid].context_data["order_confirmed"]) =>
           ContactFilled(sessions[sid])

\* the summary has just been shown for an order with its contact filled in
C32_Witness ==
    /\ turn.sid \in DOMAIN sessions
    /\ InSeq("summary", turn.out)
    /\ sessions[turn.sid].current_state = "ORDER_SUMMARY"
    /\ sessions[turn.sid].context_data["summary_shown"]
    /\ sessions[turn.sid].order.email = "alice@example.com"


\* the words route_from_resume reads as a request to start over
RestartWords == {"order", "quote", "restart", "start", "begin"}

\* the conversation has ended with an order suspended
EndedWithSuspendedOrder(s) ==
    /\ s.current_state = "END"
    /\ s.context_data["order_interrupted"]
    /\ s.interrupted_from # NoneV

C33_Step(sid) ==
    (EndedWithSuspendedOrder(Before(sid)) /\ HasAny(RestartWords, turn'.text)) =>
      /\ turn'.err = NoneV
      /\ sessions'[sid].current_state = Before(sid).interrupted_from

\* C33: from END with a suspended order (order_interrupted set and
\* interrupted_from non-empty), a message containing one of order, quote,
\* restart, start, begin resumes the incomplete order: the turn ends in the
\* interrupted order step rather than in END.
C33_RestartResumesOrder ==
    [][\A sid \in SessionIds : turn'.sid = sid => C33_Step(sid)]_vars


\* the turn did no answer processing: no order field written, no complete
\* flag changed, nothing sent to retrieval
NoAnswerProcessing(sid) ==
    /\ sessions'[sid].order = Before(sid).order
    /\ SameComplete(sessions'[sid], Before(sid))
    /\ turn'.rags = 0

C34_Step(sid) ==
    /\ turn'.err = NoneV => sessions'[sid].last_user_message = ""
    /\ turn'.text = "" => NoAnswerProcessing(sid)

\* C34: at every pause point the pending user text is empty, so a turn
\* submitted with empty user text performs no answer processing: it writes no
\* order field, sets no complete flag and sends nothing to the retrieval
\* collaborator.
C34_EmptyTurnProcessesNothing ==
    [][\A sid \in SessionIds : turn'.sid = sid => C34_Step(sid)]_vars


\* the interrupt markers of a session agree with each other and with its state
MarkersConsistent(s) ==
    /\ s.context_data["order_interrupted"] <=> s.interrupted_from # NoneV
    /\ s.interrupted_from # NoneV => s.interrupted_from \in OrderStates
    /\ s.context_data["order_interrupted"] => s.current_state \in SideFlowStates

\* every node of a pass returns a session with consistent markers
NodeKeepsMarkers(v) == MarkersConsistent(v.after.s)

\* C35: interrupt markers are consistent in every reachable state:
\* order_interrupted is true exactly when interrupted_from is non-empty,
\* interrupted_from is always an order step, and while order_interrupted is
\* true the state is product Q&A, WANTS_HUMAN or END.
C35_MarkersConsistent ==
    /\ \A sid \in DOMAIN sessions : MarkersConsistent(sessions[sid])
    /\ AllTurnVisits(NodeKeepsMarkers)

\* an order suspended at the budget step for the end flow
C35_Witness ==
    /\ turn.sid \in DOMAIN sessions
    /\ turn.text = "stop"
    /\ sessions[turn.sid].current_state = "END"
    /\ sessions[turn.sid].context_data["order_interrupted"]
    /\ sessions[turn.sid].interrupted_from = "ORDER_BUDGET"


\* the complete flags that are true form a prefix of the fixed step order
CompletePrefix(s) ==
    \A i \in 1..Len(RouterSteps) : \A j \in 1..(i - 1) :
      s.context_data[RouterSteps[i].complete] => s.context_data[RouterSteps[j].complete]

\* every step's complete flag is false, as in a new quote
FlagsReset(s) == \A i \in 1..Len(RouterSteps) : ~s.context_data[RouterSteps[i].complete]

C36_Step(sid) ==
    /\ CompletePrefix(sessions'[sid])
    /\ \/ FlagsReset(sessions'[sid])
       \/ \A i \in 1..Len(RouterSteps) :
            Before(sid).context_data[RouterSteps[i].complete] =>
              sessions'[sid].context_data[RouterSteps[i].complete]

\* C36: completion flags are monotone and form a prefix of the fixed step
\* order: after every turn, a step's complete flag is true only if the flag
\* of every earlier step is true, and a flag that was true is still true
\* unless all flags were reset for a new quote.
C36_FlagsMonotonePrefix ==
    [][\A sid \in SessionIds : turn'.sid = sid => C36_Step(sid)]_vars

\* the decoration steps are complete behind a complete logo step, the
\* quantity step is open
C36_Witness ==
    /\ turn.sid \in DOMAIN sessions
    /\ turn.err = NoneV
    /\ sessions[turn.sid].current_state = "ORDER_QUANTITY"
    /\ sessions[turn.sid].context_data["logo_complete"]
    /\ sessions[turn.sid].context_data["decoration_colors_complete"]
    /\ ~sessions[turn.sid].context_data["qty_complete"]


\* the replies that take an order out of a side flow
ResumeTexts == {"continue order", "continue"}

\* replies to the business/personal question
OrgTypeProbes == {"personal", "yes", "acme"}

\* the last turn resumed the order at the organization step
ResumedAtOrganization(s) ==
    /\ turn.sid \in SessionIds
    /\ turn.err = NoneV
    /\ turn.text \in ResumeTexts
    /\ s.current_state = "ORDER_ORGANIZATION"
    /\ ~s.context_data["org_complete"]

SizeQuestionOpen(s) ==
    /\ s.current_state = "ORDER_SIZES"
    /\ ~s.context_data["order_interrupted"]
    /\ s.context_data["exact_sizes_mode"]
    /\ s.context_data["sizes_question_shown"]
    /\ ~s.context_data["sizes_complete"]
    /\ s.context_data["size_step"] < Len(size_sequence)

\* quantities a customer may enter for one size, and a reply that is none
SizeQtyProbes == {"0", "4", "30"}
BadSizeProbe == "some"

\* the quantity ranges offered per service, with their bounds (NoneInt: open)
RangeBounds(service_type) ==
    IF service_type = "Screen Printing" THEN
      {[name |-> "24-50", lo |-> 24, hi |-> 50], [name |-> "51-100", lo |-> 51, hi |-> 100],
       [name |-> "101-200", lo |-> 101, hi |-> 200],
       [name |-> "201-350", lo |-> 201, hi |-> 350],
       [name |-> "351+", lo |-> 351, hi |-> NoneInt]}
    ELSE
      {[name |-> "6-10", lo |-> 6, hi |-> 10], [name |-> "11-20", lo |-> 11, hi |-> 20],
       [name |-> "21-50", lo |-> 21, hi |-> 50], [name |-> "51-100", lo |-> 51, hi |-> 100],
       [name |-> "101+", lo |-> 101, hi |-> NoneInt]}

\* the stored range is a range of the service whose bounds contain the total
RangeContains(service_type, range_str, total) ==
    \E b \in RangeBounds(service_type) :
      /\ b.name = range_str
      /\ b.lo <= total
      /\ b.hi = NoneInt \/ total <= b.hi

\* the sizes entered so far, with the reply added for the size being asked
WithReply(s, t) ==
    Append(s.context_data["sizes_collected"],
           [size |-> size_sequence[s.context_data["size_step"] + 1], quantity |-> IntOf(t)])

\* a valid reply to one of the first six sizes: the next size is asked
NextSizeAsked(s, t, res) ==
    /\ res.err = NoneV
    /\ res.out = <<"ask_size">>
    /\ res.s.context_data["size_step"] = s.context_data["size_step"] + 1
    /\ res.s.context_data["sizes_collected"] = WithReply(s, t)
    /\ ~res.s.context_data["sizes_complete"]

\* a valid reply to the seventh size: the sizes above 0 and the range of the
\* total are stored
SizesStored(s, t, res) ==
    /\ res.err = NoneV
    /\ res.s.context_data["sizes_complete"]
    /\ res.s.order.sizes = SelectSeq(WithReply(s, t), LAMBDA e : e.quantity > 0)
    /\ RangeContains(s.order.service_type, res.s.order.total_quantity,
                     SumQty(WithReply(s, t)))

\* an invalid reply: the same size is asked for again
SizeReprompted(s, res) ==
    /\ res.err = NoneV
    /\ res.out = <<"reprompt_sizes">>
    /\ res.s.context_data["size_step"] = s.context_data["size_step"]
    /\ res.s.context_data["sizes_collected"] = s.context_data["sizes_collected"]
    /\ res.s.order = s.order

\* the sizes entered so far are those of the first size_step sizes, in order
AskedInOrder(s) ==
    /\ Len(s.context_data["sizes_collected"]) = s.context_data["size_step"]
    /\ \A i \in 1..Len(s.context_data["sizes_collected"]) :
         s.context_data["sizes_collected"][i].size = size_sequence[i]

\* C38: in exact-sizes entry the sizes step asks the seven sizes S, M, L, XL,
\* 2XL, 3XL, 4XL in that order, an invalid reply re-prompts without
\* advancing, and after the seventh valid reply the stored size list holds
\* exactly the sizes with quantity above 0 and the stored quantity range is
\* the range of the service whose bounds contain the sum of the quantities.
C38_ExactSizesEntry ==
    \A sid \in SessionIds :
      SizeQuestionOpen(Before(sid)) =>
        /\ AskedInOrder(Before(sid))
        /\ \A res \in {invoke("resume", NewRun(Received(Before(sid), BadSizeProbe)),
                              DefaultEnv)} : SizeReprompted(Before(sid), res)
        /\ \A t \in SizeQtyProbes :
             \A res \in {invoke("resume", NewRun(Received(Before(sid), t)), DefaultEnv)} :
               IF Before(sid).context_data["size_step"] + 1 < Len(size_sequence)
               THEN NextSizeAsked(Before(sid), t, res)
               ELSE SizesStored(Before(sid), t, res)


\* a successful upload for the session was made while a turn was in flight,
\* and that turn now finishes
UploadedDuringTurn(sid) ==
    /\ sid \in DOMAIN pending
    /\ sid \notin DOMAIN pending'
    /\ uploaded.sid = sid
    /\ uploaded.outcome = "uploaded"

C39_Step(sid) ==
    UploadedDuringTurn(sid) =>
      /\ sessions'[sid].context_data["logo_complete"]
      /\ sessions'[sid].context_data["logo_file_id"] = uploaded.store[sid].context_data["logo_file_id"]
      /\ turn'.err = NoneV => sessions'[sid].current_state = turn'.current_state

\* C39: a logo upload that completes while a chat turn for the same session
\* is in flight is not lost: when the turn has finished as well, the stored
\* session has the logo step complete and holds the uploaded file reference,
\* and the effects of the chat turn are present too.
C39_UploadDuringTurnKept ==
    [][\A sid \in SessionIds : C39_Step(sid)]_vars


C40_Step(sid) ==
    turn'.success =>
      /\ turn'.text # "" =>
           /\ Len(turn'.out) >= 1
           /\ turn'.response = turn'.out[Len(turn'.out)]
      /\ turn'.conversation_ended <=> sessions'[sid].current_state = "END"

\* C40: every successful turn with non-empty user text appends at least one
\* assistant message, so the text returned as the latest assistant message
\* was produced in that turn and is never left over from an earlier one;
\* conversation_ended is true exactly when the saved state is END.
C40_ReplyBelongsToTurn ==
    [][\A sid \in SessionIds : turn'.sid = sid => C40_Step(sid)]_vars

====
